---- MODULE Spec2Model ----
(***************************************************************************)
(* Model of SandboxService (src/src/sandbox/sandbox.service.ts): the       *)
(* lazily created sandbox handle, the command / file primitives that pass  *)
(* through ensureSandbox, close / onModuleDestroy, runSimpleTest and the   *)
(* readiness probe of startService.                                        *)
(*                                                                         *)
(* The service runs on one JavaScript thread.  Every action below is the   *)
(* code that runs between two awaits of one asynchronous call; calls       *)
(* interleave only at awaits.  A remote request (Sandbox.create, kill,     *)
(* commands.run, a file request) is issued by one action and settled, with *)
(* success or with a thrown error, by a later one.                         *)
(***************************************************************************)
EXTENDS Integers, FiniteSets, Sequences, TLC

\* ---------------------------------------------------------------- bounds
NumProcs   == 2      \* concurrent callers of the service
MaxCreates == 2      \* Sandbox.create requests issued in one behaviour
MaxCalls   == 3      \* public operations started in one behaviour

Procs      == 1..NumProcs
SandboxIds == 1..MaxCreates          \* the n-th Sandbox.create yields sandbox n
NoSandbox  == 0                      \* this.sandbox = null, no promise, no handle

\* the operations that obtain their handle from ensureSandbox and then issue
\* one remote request on it
PrimOps == {"runCommand", "writeFile", "readFile", "createDirectory", "listFiles"}

\* the remote request each primitive issues on its handle
RemoteCall(o) ==
    CASE o = "runCommand"      -> "commands.run"
      [] o = "writeFile"       -> "files.write"
      [] o = "readFile"        -> "files.read"
      [] o = "createDirectory" -> "files.makeDir"
      [] o = "listFiles"       -> "files.list"
      [] OTHER                 -> "none"

VARIABLES
    cfg,                     \* which configuration keys ConfigService holds
    svc,                     \* "unbuilt" | "ready" | "failed" (constructor threw)
    sandbox,                 \* this.sandbox: NoSandbox or a sandbox id
    sandboxCreationPromise,  \* this.sandboxCreationPromise: NoSandbox or a create id
    createState,             \* create id -> "none" | "pending" | "ok" | "failed"
    createdBy,               \* create id -> [by: "none" | "ensureSandbox" | "runSimpleTest",
                             \*               period: period when it was issued]
    nCreates,                \* Sandbox.create requests issued so far
    killCalls,               \* sandbox id -> number of kill() invocations
    killed,                  \* sandboxes whose kill() has completed
    proc,                    \* caller -> the state of its current call
    calls,                   \* operations started so far
    period,                  \* times this.sandbox went from a handle to null
    resolved,                \* {[period, handle]}: ensureSandbox calls begun with no sandbox
    released,                \* sandboxes a finished close() has killed
    closeDone,               \* a close() that killed has finished, no ensureSandbox began since
    now,                     \* Date.now(), in ms
    service,                 \* the launched service: "absent" | "down" | "listening" | "answering"
    httpInTime,              \* the service began to answer HTTP before the readiness deadline
    w,                       \* the locals of waitForServiceReady / logServiceDiagnostics
    cmdCall,                 \* one runCommand / runLongCommand call and the command it runs
    backend,                 \* the uvicorn service inside the sandbox and the launches issued
    boot,                    \* one call of a bootstrap procedure
    poll,                    \* the locals of pollBackendStatus / restartBackendService
    mongod,                  \* the mongod daemon inside the sandbox and what is installed
    mongoCall,               \* caller -> its startMongoDB / testMongoDBConnection /
                             \*           executeMongoCommand call
    fs,                      \* the directories and files of the sandbox and the
                             \* createDirectory / writeFile calls made on them
    dep                      \* one call of a deployment workflow

lifeVars == <<sandbox, sandboxCreationPromise, createState, createdBy, nCreates,
              killCalls, killed, proc, calls, period, resolved, released, closeDone>>

probeVars == <<now, service, httpInTime, w>>

backendVars == <<backend, boot, poll>>

mongoVars == <<mongod, mongoCall>>

deployVars == <<fs, dep>>

opVars == <<cmdCall, backendVars, mongoVars, deployVars>>

vars == <<cfg, svc, lifeVars, probeVars, opVars>>

\* ------------------------------------------------------------ constructor
ConstructorNoApiKeyCheck(c) ==
    IF ~c.templateId THEN "failed" ELSE "ready"

\* constructor: throws when E2B_TEMPLATE_ID or E2B_API_KEY is not set
Constructor(c) ==
    IF ~c.templateId THEN "failed"
    ELSE IF ~c.apiKey THEN "failed"
    ELSE "ready"

Construct ==
    /\ svc = "unbuilt"
    /\ svc' = Constructor(cfg)
    /\ UNCHANGED <<cfg, lifeVars, probeVars, opVars>>

\* ---------------------------------------------------------- caller state
Idle ==
    [pc        |-> "idle",      \* position of the call
     op        |-> "none",      \* the public operation
     handle    |-> NoSandbox,   \* the local `sandbox` / `testSandbox`
     awaiting  |-> NoSandbox,   \* the create id awaited
     viaEnsure |-> FALSE,       \* handle was returned by ensureSandbox
     afterKill |-> FALSE,       \* remote request issued after kill() on its handle
     seen      |-> NoSandbox,   \* this.sandbox when the call began
     branch    |-> "none",      \* the branch ensureSandbox / onModuleDestroy took
     startPeriod |-> 0,         \* period when the call began
     stale     |-> {},          \* sandboxes already released when the call began
     nextAfterClose |-> FALSE,  \* first ensureSandbox call after a close() finished
     creates   |-> 0,           \* Sandbox.create requests issued by the call
     ops       |-> 0,           \* command / file requests issued by the call
     kills     |-> 0,           \* kill() requests issued by the call
     cause     |-> "none",      \* what made the call throw
     after     |-> NoSandbox,   \* this.sandbox when close() finished
     inFlight  |-> NoSandbox]   \* the creation in flight when close() was called

\* waitForServiceReady is not running
NotWaiting ==
    [pc          |-> "none",    \* position inside waitForServiceReady
     startTime   |-> 0,         \* const startTime = Date.now()
     attempt     |-> 0,         \* the loop counter
     isListening |-> FALSE,     \* the port check of this attempt saw the port
     httpResponse |-> "",       \* httpCheck.stdout.trim() of this attempt
     curl        |-> "none",    \* what the HTTP request of this attempt met
     threw       |-> FALSE,     \* a remote call of this attempt threw
     beganAnswering |-> FALSE,  \* the service answered HTTP when this attempt began
     background  |-> FALSE,     \* the launch was issued with background: true
     diag        |-> {}]        \* the diagnostic snapshots collected

\* callers are interchangeable: a new call takes the lowest free slot
CanBegin(p) ==
    /\ svc = "ready"
    /\ proc[p].pc = "idle"
    /\ \A q \in Procs : q < p => proc[q].pc # "idle"
    /\ calls < MaxCalls

\* ---------------------------------------------------------- ensureSandbox
EnsureBranchNoPromise(sb, prom) ==
    IF sb # NoSandbox THEN "return" ELSE "create"

\* ensureSandbox up to its first await: return this.sandbox, return the
\* creation in flight, or start a creation
EnsureBranch(sb, prom) ==
    IF sb # NoSandbox THEN "return"
    ELSE IF prom # NoSandbox THEN "join"
    ELSE "create"

\* the state of a call of o that has just entered ensureSandbox; o is
\* "startService" or "primitive": the five primitives begin alike
\* (`const sandbox = await this.ensureSandbox()`), so which one the call is
\* shows only in the request it issues next
Entered(o, b) ==
    [Idle EXCEPT !.op = o, !.seen = sandbox, !.branch = b,
                 !.startPeriod = period, !.stale = released,
                 !.nextAfterClose = closeDone]

\* `if (this.sandbox) return this.sandbox`
EnsureReturns(p, o) ==
    /\ CanBegin(p)
    /\ EnsureBranch(sandbox, sandboxCreationPromise) = "return"
    /\ proc' = [proc EXCEPT ![p] = [Entered(o, "return") EXCEPT
                    !.pc = "resume", !.handle = sandbox, !.viaEnsure = TRUE]]
    /\ calls' = calls + 1
    /\ closeDone' = FALSE
    /\ UNCHANGED <<probeVars, cfg, svc, sandbox, sandboxCreationPromise, createState,
                   createdBy, nCreates, killCalls, killed, period, resolved,
                   released>>
    /\ UNCHANGED opVars

\* `if (this.sandboxCreationPromise) return this.sandboxCreationPromise`
EnsureJoins(p, o) ==
    /\ CanBegin(p)
    /\ EnsureBranch(sandbox, sandboxCreationPromise) = "join"
    /\ proc' = [proc EXCEPT ![p] = [Entered(o, "join") EXCEPT
                    !.pc = "awaitPromise", !.awaiting = sandboxCreationPromise]]
    /\ calls' = calls + 1
    /\ closeDone' = FALSE
    /\ UNCHANGED <<probeVars, cfg, svc, sandbox, sandboxCreationPromise, createState,
                   createdBy, nCreates, killCalls, killed, period, resolved,
                   released>>
    /\ UNCHANGED opVars

\* `this.sandboxCreationPromise = this.createSandbox()`; createSandbox issues
\* Sandbox.create and the call awaits it
EnsureCreates(p, o) ==
    /\ CanBegin(p)
    /\ EnsureBranch(sandbox, sandboxCreationPromise) = "create"
    /\ nCreates < MaxCreates
    /\ LET n == nCreates + 1 IN
        /\ nCreates' = n
        /\ createState' = [createState EXCEPT ![n] = "pending"]
        /\ createdBy' = [createdBy EXCEPT ![n] = [by |-> "ensureSandbox", period |-> period]]
        /\ sandboxCreationPromise' = n
        /\ proc' = [proc EXCEPT ![p] = [Entered(o, "create") EXCEPT
                        !.pc = "awaitCreation", !.awaiting = n, !.creates = 1]]
    /\ calls' = calls + 1
    /\ closeDone' = FALSE
    /\ UNCHANGED <<probeVars, cfg, svc, sandbox, killCalls, killed, period, resolved, released>>
    /\ UNCHANGED opVars

AwaitCreationSwallow(ok) == "resume"

\* `this.sandbox = await this.sandboxCreationPromise`: a rejection is thrown
\* to the caller of ensureSandbox, which has no try/catch either
AwaitCreation(ok) ==
    IF ok THEN "resume" ELSE "threw"

Resolve(p, h) ==
    IF proc[p].seen = NoSandbox
    THEN resolved \cup {[period |-> proc[p].startPeriod, handle |-> h]}
    ELSE resolved

\* Sandbox.create settles; on success the creating call stores the handle and
\* clears the promise (lines 54-57), on failure the rejected promise stays
CreateSettles(p, ok) ==
    /\ proc[p].pc = "awaitCreation"
    /\ LET n    == proc[p].awaiting
           next == AwaitCreation(ok) IN
        /\ createState' = [createState EXCEPT ![n] = IF ok THEN "ok" ELSE "failed"]
        /\ IF ok
           THEN /\ sandbox' = n
                /\ sandboxCreationPromise' = NoSandbox
                /\ resolved' = Resolve(p, n)
                /\ proc' = [proc EXCEPT ![p].pc = next, ![p].handle = n,
                                        ![p].viaEnsure = TRUE]
           ELSE /\ UNCHANGED <<sandbox, sandboxCreationPromise, resolved>>
                /\ proc' = [proc EXCEPT ![p].pc = next, ![p].viaEnsure = TRUE,
                                        ![p].cause = IF next = "threw" THEN "create" ELSE "none"]
    /\ UNCHANGED <<probeVars, cfg, svc, createdBy, nCreates, killCalls, killed, calls,
                   period, released, closeDone>>
    /\ UNCHANGED opVars

\* a call that was handed the creation promise resumes once it has settled
JoinSettles(p) ==
    /\ proc[p].pc = "awaitPromise"
    /\ createState[proc[p].awaiting] \in {"ok", "failed"}
    /\ LET n  == proc[p].awaiting
           ok == createState[n] = "ok" IN
        /\ proc' = [proc EXCEPT ![p].pc = IF ok THEN "resume" ELSE "threw",
                                ![p].handle = IF ok THEN n ELSE NoSandbox,
                                ![p].viaEnsure = TRUE,
                                ![p].cause = IF ok THEN "none" ELSE "create"]
        /\ resolved' = IF ok THEN Resolve(p, n) ELSE resolved
    /\ UNCHANGED <<probeVars, cfg, svc, sandbox, sandboxCreationPromise, createState,
                   createdBy, nCreates, killCalls, killed, calls, period,
                   released, closeDone>>
    /\ UNCHANGED opVars

\* ------------------------------------------- runCommand, files.* primitives
\* `await sandbox.commands.run(...)`, `await sandbox.files.write(...)`, ...:
\* the request is issued on the handle ensureSandbox returned
IssueRemote(p, o) ==
    /\ proc[p].pc = "resume"
    /\ proc[p].op = "primitive"
    /\ proc' = [proc EXCEPT ![p].pc = "awaitRemote",
                            ![p].op = o,
                            ![p].ops = @ + 1,
                            ![p].afterKill = killCalls[proc[p].handle] > 0]
    /\ UNCHANGED <<probeVars, cfg, svc, sandbox, sandboxCreationPromise, createState,
                   createdBy, nCreates, killCalls, killed, calls, period,
                   resolved, released, closeDone>>
    /\ UNCHANGED opVars

\* the remote request settles; it cannot succeed on a sandbox that is gone
RemoteSettles(p, ok) ==
    /\ proc[p].pc = "awaitRemote"
    /\ ok => (proc[p].handle # NoSandbox /\ proc[p].handle \notin killed)
    /\ proc' = [proc EXCEPT ![p] = [Idle EXCEPT
                    !.pc = IF ok THEN "returned" ELSE "threw",
                    !.op = proc[p].op,
                    !.cause = IF ok THEN "none" ELSE "remote"]]
    /\ UNCHANGED <<probeVars, cfg, svc, sandbox, sandboxCreationPromise, createState,
                   createdBy, nCreates, killCalls, killed, calls, period,
                   resolved, released, closeDone>>
    /\ UNCHANGED opVars

\* the caller of the operation receives its result or its error
Return(p) ==
    /\ proc[p].pc \in {"returned", "threw"}
    /\ proc' = [proc EXCEPT ![p] = Idle]
    /\ w' = NotWaiting
    /\ UNCHANGED <<cfg, svc, sandbox, sandboxCreationPromise, createState,
                   createdBy, nCreates, killCalls, killed, calls, period,
                   resolved, released, closeDone, now, service, httpInTime>>
    /\ UNCHANGED opVars

\* ------------------------------------------------ close / onModuleDestroy
CloseBranch(sb) ==
    IF sb # NoSandbox THEN "kill" ELSE "noop"

SandboxAfterKillKept(sb) == sb

\* `this.sandbox = null` after the awaited kill()
SandboxAfterKill(sb) == NoSandbox

\* `if (this.sandbox) { await this.sandbox.kill(); ...`
CloseKills(p) ==
    /\ CanBegin(p)
    /\ CloseBranch(sandbox) = "kill"
    /\ killCalls' = [killCalls EXCEPT ![sandbox] = @ + 1]
    /\ proc' = [proc EXCEPT ![p] = [Idle EXCEPT
                    !.pc = "awaitKill", !.op = "close", !.handle = sandbox,
                    !.seen = sandbox, !.branch = "kill", !.kills = 1]]
    /\ calls' = calls + 1
    /\ UNCHANGED <<probeVars, cfg, svc, sandbox, sandboxCreationPromise, createState,
                   createdBy, nCreates, killed, period, resolved, released,
                   closeDone>>
    /\ UNCHANGED opVars

\* no sandbox: onModuleDestroy returns at once
CloseNoop(p) ==
    /\ CanBegin(p)
    /\ CloseBranch(sandbox) = "noop"
    /\ proc' = [proc EXCEPT ![p] = [Idle EXCEPT
                    !.pc = "returned", !.op = "close", !.seen = sandbox,
                    !.branch = "noop", !.after = sandbox,
                    !.inFlight = IF sandboxCreationPromise # NoSandbox
                                    /\ createState[sandboxCreationPromise] = "pending"
                                 THEN sandboxCreationPromise ELSE NoSandbox]]
    /\ calls' = calls + 1
    /\ UNCHANGED <<probeVars, cfg, svc, sandbox, sandboxCreationPromise, createState,
                   createdBy, nCreates, killCalls, killed, period, resolved,
                   released, closeDone>>
    /\ UNCHANGED opVars

\* kill() settles; on success the call clears this.sandbox, whatever it holds now
KillSettles(p, ok) ==
    /\ proc[p].pc = "awaitKill"
    /\ IF ok
       THEN /\ killed' = killed \cup {proc[p].handle}
            /\ sandbox' = SandboxAfterKill(sandbox)
            /\ period' = IF sandbox # NoSandbox /\ sandbox' = NoSandbox
                         THEN period + 1 ELSE period
            /\ released' = released \cup {proc[p].handle}
            /\ closeDone' = TRUE
            /\ proc' = [proc EXCEPT ![p].pc = "returned", ![p].after = sandbox']
       ELSE /\ proc' = [proc EXCEPT ![p].pc = "threw", ![p].cause = "kill"]
            /\ UNCHANGED <<killed, sandbox, period, released, closeDone>>
    /\ UNCHANGED <<probeVars, cfg, svc, sandboxCreationPromise, createState, createdBy,
                   nCreates, killCalls, calls, resolved>>
    /\ UNCHANGED opVars

\* ---------------------------------------------------------- runSimpleTest
\* `const testSandbox = await Sandbox.create(...)`: a sandbox of its own
TestBegin(p) ==
    /\ CanBegin(p)
    /\ nCreates < MaxCreates
    /\ LET n == nCreates + 1 IN
        /\ nCreates' = n
        /\ createState' = [createState EXCEPT ![n] = "pending"]
        /\ createdBy' = [createdBy EXCEPT ![n] = [by |-> "runSimpleTest", period |-> period]]
        /\ proc' = [proc EXCEPT ![p] = [Idle EXCEPT
                        !.pc = "testAwaitCreate", !.op = "runSimpleTest",
                        !.awaiting = n, !.seen = sandbox, !.creates = 1]]
    /\ calls' = calls + 1
    /\ UNCHANGED <<probeVars, cfg, svc, sandbox, sandboxCreationPromise, killCalls, killed,
                   period, resolved, released, closeDone>>
    /\ UNCHANGED opVars

\* the create settles: on success `pm2 --version` is run on testSandbox, a
\* failure is caught and reported as {success: false}
TestCreateSettles(p, ok) ==
    /\ proc[p].pc = "testAwaitCreate"
    /\ LET n == proc[p].awaiting IN
        /\ createState' = [createState EXCEPT ![n] = IF ok THEN "ok" ELSE "failed"]
        /\ proc' = IF ok
                   THEN [proc EXCEPT ![p].pc = "testAwaitRun", ![p].handle = n,
                                     ![p].ops = @ + 1,
                                     ![p].afterKill = killCalls[n] > 0]
                   ELSE [proc EXCEPT ![p].pc = "returned", ![p].cause = "create"]
    /\ UNCHANGED <<probeVars, cfg, svc, sandbox, sandboxCreationPromise, createdBy, nCreates,
                   killCalls, killed, calls, period, resolved, released, closeDone>>
    /\ UNCHANGED opVars

\* the test command settles: on success testSandbox.kill() is issued, a throw
\* goes to the catch block, which returns without killing
TestRunSettles(p, ok) ==
    /\ proc[p].pc = "testAwaitRun"
    /\ IF ok
       THEN /\ killCalls' = [killCalls EXCEPT ![proc[p].handle] = @ + 1]
            /\ proc' = [proc EXCEPT ![p].pc = "testAwaitKill", ![p].kills = @ + 1]
       ELSE /\ proc' = [proc EXCEPT ![p].pc = "returned", ![p].cause = "remote"]
            /\ UNCHANGED killCalls
    /\ UNCHANGED <<probeVars, cfg, svc, sandbox, sandboxCreationPromise, createState,
                   createdBy, nCreates, killed, calls, period, resolved,
                   released, closeDone>>
    /\ UNCHANGED opVars

\* testSandbox.kill() settles
TestKillSettles(p, ok) ==
    /\ proc[p].pc = "testAwaitKill"
    /\ killed' = IF ok THEN killed \cup {proc[p].handle} ELSE killed
    /\ proc' = [proc EXCEPT ![p] = [Idle EXCEPT
                    !.pc = "returned", !.op = "runSimpleTest",
                    !.cause = IF ok THEN "none" ELSE "kill"]]
    /\ UNCHANGED <<probeVars, cfg, svc, sandbox, sandboxCreationPromise, createState,
                   createdBy, nCreates, killCalls, calls, period, resolved,
                   released, closeDone>>
    /\ UNCHANGED opVars

\* ------------------------------------------- startService: program constants
ReadyTimeoutMs     == 60000   \* waitForServiceReady(port, url, 60000)
PollIntervalMs     == 2000    \* setTimeout(resolve, 2000); Math.ceil(timeoutMs / 2000)
PortCheckTimeoutMs == 5000    \* runCommand(`ss -tlnp | grep ...`, '/tmp', 5000)
HttpCheckTimeoutMs == 15000   \* runCommand(`curl ...`, '/tmp', 15000)
CurlMaxTimeMs      == 10000   \* curl --max-time 10
DiagTimeoutMs      == 10000   \* runCommand(..., '/tmp', 10000) in logServiceDiagnostics
Port               == 8000    \* startService('python3 -m uvicorn ...', 8000, ...)

\* bound of the probe model
MaxDelay == 1        \* whole seconds a remote request may take to answer

Delays  == {d * 1000 : d \in 0..MaxDelay}
Starter == 1         \* the caller of startService

\* Math.ceil(a / b)
Ceil(a, b) == (a + b - 1) \div b

\* waitForServiceReady: `const maxAttempts = Math.ceil(timeoutMs / 2000)`
MaxAttempts(timeoutMs) == Ceil(timeoutMs, PollIntervalMs)

\* ------------------------------------------------- the remote shell commands
\* `ss -tlnp | grep ":${port} " || netstat -tlnp | grep ":${port} "`: the rows
\* of the listening-socket table that name the port, as the ports they name
PortCheckStdout(st, port) ==
    IF st \in {"listening", "answering"} THEN <<port>> ELSE <<>>

\* portCheck.stdout.includes(`:${port}`)
Includes(stdout, port) ==
    \E i \in 1..Len(stdout) : stdout[i] = port

\* what the loopback request can meet: an HTTP status once the service
\* answers, no HTTP response ("failed": refused, reset or --max-time) before
CurlOutcomes(st) ==
    IF st = "answering" THEN {"200", "404", "500"} ELSE {"failed"}

\* `curl -s -o /dev/null -w "%{http_code}" --max-time 10 URL || echo "curl_failed"`:
\* curl writes the status (000 when it got no response) and, having failed,
\* leaves the shell to run the echo after it
CurlCommandStdout(c) ==
    IF c = "failed" THEN "000" \o "curl_failed\n" ELSE c

RECURSIVE Trim(_)
\* String.prototype.trim
Trim(t) ==
    IF Len(t) > 0 /\ SubSeq(t, Len(t), Len(t)) \in {"\n", " "}
    THEN Trim(SubSeq(t, 1, Len(t) - 1))
    ELSE IF Len(t) > 0 /\ SubSeq(t, 1, 1) \in {"\n", " "}
    THEN Trim(SubSeq(t, 2, Len(t)))
    ELSE t

\* `httpResponse && httpResponse !== 'curl_failed' && httpResponse !== '000'`
ReadyResponse(httpResponse) ==
    /\ httpResponse # ""
    /\ httpResponse # "curl_failed"
    /\ httpResponse # "000"

\* ------------------------------------------------------------ startService
\* a runCommand of the probe: ensureSandbox hands back the stored handle and the
\* command is issued on it
ProbeCommand(p) ==
    [proc[p] EXCEPT !.handle = sandbox, !.viaEnsure = TRUE,
                    !.afterKill = killCalls[sandbox] > 0]

\* SpecService follows one startService call from its entry to its end
CanStart(p) ==
    /\ p = Starter
    /\ CanBegin(p)
    /\ calls = 0

\* `sandbox.commands.run(command, {cwd, background: true, timeoutMs: 0})`
LaunchService(p) ==
    /\ proc[p].pc = "resume"
    /\ proc[p].op = "startService"
    /\ proc' = [proc EXCEPT ![p].pc = "awaitLaunch", ![p].ops = @ + 1,
                            ![p].afterKill = killCalls[proc[p].handle] > 0]
    /\ w' = [NotWaiting EXCEPT !.background = TRUE]
    /\ UNCHANGED <<cfg, svc, sandbox, sandboxCreationPromise, createState,
                   createdBy, nCreates, killCalls, killed, calls, period,
                   resolved, released, closeDone, now, service, httpInTime>>
    /\ UNCHANGED opVars

\* the launch settles: the process runs on, the URL is computed and
\* waitForServiceReady begins (`const startTime = Date.now()`)
LaunchSettles(p, ok, d) ==
    /\ proc[p].pc = "awaitLaunch"
    /\ now' = now + d
    /\ IF ok
       THEN /\ service' = IF service = "absent" THEN "down" ELSE service
            /\ w' = [w EXCEPT !.pc = "attempt", !.startTime = now', !.attempt = 1]
            /\ proc' = [proc EXCEPT ![p] = [Idle EXCEPT
                            !.pc = "waiting", !.op = "startService",
                            !.handle = proc[p].handle, !.viaEnsure = TRUE,
                            !.ops = proc[p].ops]]
       ELSE /\ proc' = [proc EXCEPT ![p].pc = "threw", ![p].cause = "remote"]
            /\ UNCHANGED <<service, w>>
    /\ UNCHANGED <<cfg, svc, sandbox, sandboxCreationPromise, createState,
                   createdBy, nCreates, killCalls, killed, calls, period,
                   resolved, released, closeDone, httpInTime>>
    /\ UNCHANGED opVars

\* the launched process binds its port
ServiceListens ==
    /\ service = "down"
    /\ service' = "listening"
    /\ UNCHANGED <<cfg, svc, lifeVars, now, httpInTime, w>>
    /\ UNCHANGED opVars

\* the launched process begins to answer HTTP, and goes on answering
ServiceAnswers ==
    /\ service = "listening"
    /\ service' = "answering"
    /\ httpInTime' = (w.pc # "none" /\ now - w.startTime < ReadyTimeoutMs)
    /\ UNCHANGED <<cfg, svc, lifeVars, now, w>>
    /\ UNCHANGED opVars

\* `if (elapsed >= timeoutMs) throw new Error(... failed to start within ...)`
DeadlineExceeded(p) ==
    /\ proc[p].pc = "waiting"
    /\ w.pc = "attempt"
    /\ now - w.startTime >= ReadyTimeoutMs
    /\ proc' = [proc EXCEPT ![p].pc = "threw", ![p].cause = "deadline"]
    /\ w' = [w EXCEPT !.pc = "none"]
    /\ UNCHANGED <<cfg, svc, sandbox, sandboxCreationPromise, createState,
                   createdBy, nCreates, killCalls, killed, calls, period,
                   resolved, released, closeDone, now, service, httpInTime>>
    /\ UNCHANGED opVars

\* an attempt begins inside the deadline: check 1, the port check, is issued
PortCheckIssue(p) ==
    /\ proc[p].pc = "waiting"
    /\ w.pc = "attempt"
    /\ now - w.startTime < ReadyTimeoutMs
    /\ EnsureBranch(sandbox, sandboxCreationPromise) = "return"
    /\ proc' = [proc EXCEPT ![p] = ProbeCommand(p)]
    /\ w' = [w EXCEPT !.pc = "portCheck",
                      !.beganAnswering = (service = "answering")]
    /\ UNCHANGED <<cfg, svc, sandbox, sandboxCreationPromise, createState,
                   createdBy, nCreates, killCalls, killed, calls, period,
                   resolved, released, closeDone, now, service, httpInTime>>
    /\ UNCHANGED opVars

\* the port check returns: when the port is listed check 2, the HTTP request,
\* is issued, otherwise the attempt is over
PortCheckReturns(p, d) ==
    /\ proc[p].pc = "waiting"
    /\ w.pc = "portCheck"
    /\ now' = now + d
    /\ LET isListening == Includes(PortCheckStdout(service, Port), Port) IN
        IF isListening
        THEN /\ EnsureBranch(sandbox, sandboxCreationPromise) = "return"
             /\ proc' = [proc EXCEPT ![p] = ProbeCommand(p)]
             /\ w' = [w EXCEPT !.pc = "httpCheck", !.isListening = TRUE]
        ELSE /\ w' = [w EXCEPT !.pc = "endAttempt", !.isListening = FALSE]
             /\ UNCHANGED proc
    /\ UNCHANGED <<cfg, svc, sandbox, sandboxCreationPromise, createState,
                   createdBy, nCreates, killCalls, killed, calls, period,
                   resolved, released, closeDone, service, httpInTime>>
    /\ UNCHANGED opVars

\* a runCommand of the attempt throws (a remote failure after d ms, or the
\* command's own timeout): the catch block logs it and the attempt is over
ProbeThrows(p, d) ==
    /\ proc[p].pc = "waiting"
    /\ w.pc \in {"portCheck", "httpCheck"}
    /\ d \in Delays \cup {IF w.pc = "portCheck" THEN PortCheckTimeoutMs
                                                 ELSE HttpCheckTimeoutMs}
    /\ now' = now + d
    /\ w' = [w EXCEPT !.pc = "endAttempt", !.threw = TRUE]
    /\ UNCHANGED <<cfg, svc, lifeVars, service, httpInTime>>
    /\ UNCHANGED opVars

\* the HTTP check returns: a response that passes the test ends the wait and
\* startService returns {process, url}
HttpCheckReturns(p, c, d) ==
    /\ proc[p].pc = "waiting"
    /\ w.pc = "httpCheck"
    /\ c \in CurlOutcomes(service)
    /\ d \in Delays \cup (IF c = "failed" THEN {CurlMaxTimeMs} ELSE {})
    /\ now' = now + d
    /\ LET httpResponse == Trim(CurlCommandStdout(c)) IN
        IF ReadyResponse(httpResponse)
        THEN /\ w' = [w EXCEPT !.pc = "ready", !.httpResponse = httpResponse, !.curl = c]
             /\ proc' = [proc EXCEPT ![p].pc = "returned"]
        ELSE /\ w' = [w EXCEPT !.pc = "endAttempt", !.httpResponse = httpResponse, !.curl = c]
             /\ UNCHANGED proc
    /\ UNCHANGED <<cfg, svc, sandbox, sandboxCreationPromise, createState,
                   createdBy, nCreates, killCalls, killed, calls, period,
                   resolved, released, closeDone, service, httpInTime>>
    /\ UNCHANGED opVars

\* `if (attempt < maxAttempts) await new Promise(r => setTimeout(r, 2000))`
Sleep(p) ==
    /\ proc[p].pc = "waiting"
    /\ w.pc = "endAttempt"
    /\ w.attempt < MaxAttempts(ReadyTimeoutMs)
    /\ now' = now + PollIntervalMs
    /\ w' = [w EXCEPT !.pc = "attempt", !.attempt = @ + 1,
                      !.isListening = FALSE, !.httpResponse = "",
                      !.curl = "none", !.threw = FALSE, !.beganAnswering = FALSE]
    /\ UNCHANGED <<cfg, svc, lifeVars, service, httpInTime>>
    /\ UNCHANGED opVars

\* the last attempt is over: logServiceDiagnostics issues its first command
AttemptsExhausted(p) ==
    /\ proc[p].pc = "waiting"
    /\ w.pc = "endAttempt"
    /\ w.attempt >= MaxAttempts(ReadyTimeoutMs)
    /\ EnsureBranch(sandbox, sandboxCreationPromise) = "return"
    /\ proc' = [proc EXCEPT ![p] = ProbeCommand(p)]
    /\ w' = [w EXCEPT !.pc = "sockets"]
    /\ UNCHANGED <<cfg, svc, sandbox, sandboxCreationPromise, createState,
                   createdBy, nCreates, killCalls, killed, calls, period,
                   resolved, released, closeDone, now, service, httpInTime>>
    /\ UNCHANGED opVars

\* the snapshot logServiceDiagnostics takes after snapshot s
NextSnapshot(s) ==
    CASE s = "sockets"   -> "processes"
      [] s = "processes" -> "logs"
      [] s = "logs"      -> "done"

\* a diagnostic command returns: the next one is issued, and after the last
\* one waitForServiceReady throws `failed to start properly`
DiagReturns(p, d) ==
    /\ proc[p].pc = "waiting"
    /\ w.pc \in {"sockets", "processes", "logs"}
    /\ now' = now + d
    /\ LET next == NextSnapshot(w.pc) IN
        /\ w' = [w EXCEPT !.pc = next, !.diag = @ \cup {w.pc}]
        /\ IF next = "done"
           THEN proc' = [proc EXCEPT ![p].pc = "threw", ![p].cause = "notReady"]
           ELSE /\ EnsureBranch(sandbox, sandboxCreationPromise) = "return"
                /\ proc' = [proc EXCEPT ![p] = ProbeCommand(p)]
    /\ UNCHANGED <<cfg, svc, sandbox, sandboxCreationPromise, createState,
                   createdBy, nCreates, killCalls, killed, calls, period,
                   resolved, released, closeDone, service, httpInTime>>
    /\ UNCHANGED opVars

\* a diagnostic command throws: the catch block of logServiceDiagnostics warns,
\* the remaining snapshots are skipped and waitForServiceReady throws
DiagThrows(p, d) ==
    /\ proc[p].pc = "waiting"
    /\ w.pc \in {"sockets", "processes", "logs"}
    /\ d \in Delays \cup {DiagTimeoutMs}
    /\ now' = now + d
    /\ w' = [w EXCEPT !.pc = "done"]
    /\ proc' = [proc EXCEPT ![p].pc = "threw", ![p].cause = "notReady"]
    /\ UNCHANGED <<cfg, svc, sandbox, sandboxCreationPromise, createState,
                   createdBy, nCreates, killCalls, killed, calls, period,
                   resolved, released, closeDone, service, httpInTime>>
    /\ UNCHANGED opVars

\* ------------------------------------------------ runCommand / runLongCommand
RunCommandDefaultMs     == 60000    \* runCommand(command, workDir = '/home', timeoutMs = 60000)
RunLongCommandDefaultMs == 600000   \* runLongCommand(command, workDir = '/home', timeoutMs = 600000)

\* bound of the command model
MaxExitCode == 2     \* a command exits with a code in 0..MaxExitCode

ExitCodes   == 0..MaxExitCode
Undefined   == -1                            \* the timeoutMs argument is left out
TimeoutArgs == {Undefined, 1000, 120000}     \* the timeoutMs a caller passes
Durations   == {500, 5000, 70000, 700000}    \* how long the remote command runs, in ms
Runners     == {"runCommand", "runLongCommand"}

NoResult == [stdout |-> "", stderr |-> "", exitCode |-> -1]

\* no runCommand call is in progress
NoCall ==
    [pc        |-> "idle",     \* "idle" | "awaitRun" | "returned" | "threw"
     fn        |-> "none",     \* runCommand or runLongCommand
     arg       |-> Undefined,  \* the timeoutMs argument
     timeoutMs |-> 0,          \* the timeoutMs handed to sandbox.commands.run
     exit      |-> 0,          \* the exit code the command ends with
     dur       |-> 0,          \* the time the command needs
     start     |-> 0,          \* Date.now() when the command was issued
     result    |-> NoResult,   \* the CommandResult returned
     error     |-> "none"]     \* what was thrown: "TimeoutError" | "remote"

DefaultTimeoutMsSame(fn) == RunCommandDefaultMs

\* the default value of the timeoutMs parameter
DefaultTimeoutMs(fn) ==
    IF fn = "runLongCommand" THEN RunLongCommandDefaultMs ELSE RunCommandDefaultMs

\* the timeoutMs the function passes on: its argument, or the default
EffectiveTimeout(fn, arg) ==
    IF arg = Undefined THEN DefaultTimeoutMs(fn) ELSE arg

\* what the finished command leaves behind on the remote side
RemoteResult(e) ==
    [stdout   |-> IF e = 0 THEN "ok\n" ELSE "",
     stderr   |-> IF e = 0 THEN "" ELSE "failed\n",
     exitCode |-> e]

\* sandbox.commands.run(command, {cwd, timeoutMs}) in the foreground: the
\* request ends with the command, or with a timeout error once timeoutMs has
\* passed (timeoutMs 0 switches the limit off)
CommandsRunOutcome(dur, timeoutMs) ==
    IF timeoutMs # 0 /\ dur > timeoutMs THEN "TimeoutError" ELSE "result"

\* the time after which the request settles
CommandsRunTime(dur, timeoutMs) ==
    IF CommandsRunOutcome(dur, timeoutMs) = "TimeoutError" THEN timeoutMs ELSE dur

AfterRunThrowOnFailure(result) ==
    IF result.exitCode # 0 THEN "threw" ELSE "returned"

\* `if (result.exitCode !== 0) { this.logger.warn(...) }`, then the return
AfterRun(result) == "returned"

\* `return {stdout: result.stdout, stderr: result.stderr, exitCode: result.exitCode}`
CommandResultOf(result) ==
    [stdout |-> result.stdout, stderr |-> result.stderr, exitCode |-> result.exitCode]

\* runCommand / runLongCommand up to `await sandbox.commands.run(...)`:
\* ensureSandbox hands back the stored handle and the command is issued
CommandBegin(fn, arg, e, dur) ==
    /\ svc = "ready"
    /\ cmdCall.pc = "idle"
    /\ calls < MaxCalls
    /\ EnsureBranch(sandbox, sandboxCreationPromise) = "return"
    /\ cmdCall' = [NoCall EXCEPT !.pc = "awaitRun", !.fn = fn, !.arg = arg,
                                 !.timeoutMs = EffectiveTimeout(fn, arg),
                                 !.exit = e, !.dur = dur, !.start = now]
    /\ calls' = calls + 1
    /\ UNCHANGED <<cfg, svc, sandbox, sandboxCreationPromise, createState,
                   createdBy, nCreates, killCalls, killed, proc, period,
                   resolved, released, closeDone, probeVars>>
    /\ UNCHANGED <<backendVars, mongoVars, deployVars>>

\* the request settles: with the command's result, which is returned whatever
\* the exit code, or with the timeout error, which neither function handles
\* (runLongCommand logs it and throws it again)
CommandSettles ==
    /\ cmdCall.pc = "awaitRun"
    /\ now' = now + CommandsRunTime(cmdCall.dur, cmdCall.timeoutMs)
    /\ IF CommandsRunOutcome(cmdCall.dur, cmdCall.timeoutMs) = "result"
       THEN LET result == RemoteResult(cmdCall.exit) IN
            cmdCall' = [cmdCall EXCEPT
                           !.pc = AfterRun(result),
                           !.result = IF AfterRun(result) = "returned"
                                      THEN CommandResultOf(result) ELSE NoResult,
                           !.error = IF AfterRun(result) = "returned"
                                     THEN "none" ELSE "exitCode"]
       ELSE cmdCall' = [cmdCall EXCEPT !.pc = "threw", !.error = "TimeoutError"]
    /\ UNCHANGED <<cfg, svc, lifeVars, service, httpInTime, w>>
    /\ UNCHANGED <<backendVars, mongoVars, deployVars>>

\* the request fails on the way (the sandbox is unreachable): the rejection
\* goes to the caller
CommandRemoteFails ==
    /\ cmdCall.pc = "awaitRun"
    /\ cmdCall' = [cmdCall EXCEPT !.pc = "threw", !.error = "remote"]
    /\ UNCHANGED <<cfg, svc, lifeVars, probeVars>>
    /\ UNCHANGED <<backendVars, mongoVars, deployVars>>

\* the caller has the result or the error
CommandReturn ==
    /\ cmdCall.pc \in {"returned", "threw"}
    /\ cmdCall' = NoCall
    /\ UNCHANGED <<cfg, svc, lifeVars, probeVars>>
    /\ UNCHANGED <<backendVars, mongoVars, deployVars>>

\* ----------------------------------------------- launches of long-running services
\* bound of the backend model
MaxFaults == 2       \* times the backend breaks or a remote request of the polling throws

\* the options a launch is issued with, by the path it takes
\* `sandbox.commands.run(command, {cwd, background: true, timeoutMs})`
BackgroundRun(timeoutMs) ==
    [path |-> "commands.run", background |-> TRUE, timeoutMs |-> timeoutMs]

\* `this.runCommand(command, workDir, timeoutMs)`: runCommand calls
\* sandbox.commands.run with {cwd, timeoutMs} and awaits the command's end
RunCommandRun(timeoutMs) ==
    [path |-> "runCommand", background |-> FALSE, timeoutMs |-> timeoutMs]

\* startService: `commands.run(command, {cwd, background: true, timeoutMs: 0})`
StartServiceRun == BackgroundRun(0)

\* the bootstrap procedures, in the current service and in the revision of
\* src/unnamed/part_001
BootProcedures ==
    {[name |-> "runFullStackTestWithMongoDB", rev |-> "current"],
     [name |-> "startBackendRobust",          rev |-> "current"],
     [name |-> "startMongoDBBackendRobust",   rev |-> "current"],
     [name |-> "deployFullStack",             rev |-> "current"],
     [name |-> "testBackendOnly",             rev |-> "part_001"],
     [name |-> "startBackendRobust",          rev |-> "part_001"],
     [name |-> "startMongoDBBackendRobust",   rev |-> "part_001"],
     [name |-> "runFullStackTestWithMongoDB", rev |-> "part_001"]}

\* the procedures that call startMongoDB before they set the backend up
StartsMongo(b) ==
    \/ b.name = "startMongoDBBackendRobust"
    \/ b.name = "runFullStackTestWithMongoDB" /\ b.rev = "current"

\* startMongoDB: the mongod launch
MongoRun(rev) ==
    IF rev = "current" THEN BackgroundRun(0) ELSE BackgroundRun(Undefined)

\* how each procedure launches uvicorn
BackendRun(b) ==
    CASE b.name \in {"deployFullStack", "testBackendOnly"}
            -> StartServiceRun
      [] b.name = "runFullStackTestWithMongoDB" /\ b.rev = "current"
            -> StartServiceRun
      [] b.name = "runFullStackTestWithMongoDB" /\ b.rev = "part_001"
            -> RunCommandRun(10000)       \* `nohup python3 -m uvicorn ... &`
      [] b.name = "startBackendRobust" /\ b.rev = "part_001"
            -> BackgroundRun(Undefined)
      [] OTHER
            -> BackgroundRun(0)

\* restartBackendService: the relaunch
RestartRun == BackgroundRun(0)

\* a launch as the sandbox receives it
Launch(daemon, site, run) ==
    [service |-> daemon, site |-> site, path |-> run.path,
     background |-> run.background, timeoutMs |-> run.timeoutMs]

\* no backend was launched yet
NoBackend ==
    [state    |-> "absent",   \* "absent" | "starting" | "listening" | "healthy" | "sick" | "stopped"
     faults   |-> 0,          \* times the backend broke or a request of the polling threw
     launches |-> {}]         \* the launches issued by the call in progress

\* no bootstrap procedure is running
NoBoot ==
    [pc        |-> "idle",    \* "idle" | "mongo" | "setup" | "launch" | "verify" | "done" | "threw"
     procedure |-> [name |-> "none", rev |-> "none"],
     attempt   |-> 0,         \* attempts of the verification loop that are over
     probeThrew |-> FALSE,    \* a remote call of the verification loop threw
     verified  |-> FALSE,     \* a probe saw the port listening and an HTTP answer
     cause     |-> "none"]    \* what made the procedure throw

\* a remote request may throw while the fault budget lasts
MayThrow(threw) == threw => backend.faults < MaxFaults

\* a bootstrap procedure is called on a service that holds a sandbox
BootBegin(b) ==
    /\ svc = "ready"
    /\ boot.pc = "idle"
    /\ EnsureBranch(sandbox, sandboxCreationPromise) = "return"
    /\ boot' = [NoBoot EXCEPT !.pc = IF StartsMongo(b) THEN "mongo" ELSE "setup",
                               !.procedure = b]
    /\ UNCHANGED <<cfg, svc, lifeVars, probeVars, cmdCall, backend, poll, mongoVars, deployVars>>

\* `await this.startMongoDB()`: it launches mongod and returns, or it throws
BootMongo(ok) ==
    /\ boot.pc = "mongo"
    /\ backend' = [backend EXCEPT !.launches =
                      @ \cup {Launch("mongod", "startMongoDB", MongoRun(boot.procedure.rev))}]
    /\ boot' = [boot EXCEPT !.pc = IF ok THEN "setup" ELSE "threw"]
    /\ UNCHANGED <<cfg, svc, lifeVars, probeVars, cmdCall, poll, mongoVars, deployVars>>

\* the files are written and the dependencies installed; a failed install
\* throws `Failed to install dependencies`
BootSetup(ok) ==
    /\ boot.pc = "setup"
    /\ boot' = [boot EXCEPT !.pc = IF ok THEN "launch" ELSE "threw"]
    /\ UNCHANGED <<cfg, svc, lifeVars, probeVars, cmdCall, backend, poll, mongoVars, deployVars>>

\* the procedure launches uvicorn
BootLaunch ==
    /\ boot.pc = "launch"
    /\ backend' = [backend EXCEPT
                      !.state = "starting",
                      !.launches = @ \cup {Launch("uvicorn", boot.procedure.name,
                                                  BackendRun(boot.procedure))}]
    /\ boot' = [boot EXCEPT !.pc = "verify"]
    /\ UNCHANGED <<cfg, svc, lifeVars, probeVars, cmdCall, poll, mongoVars, deployVars>>

\* the attempts of startBackendRobust's loop: `for (attempt = 1; attempt <= 10; ...)`
RobustAttempts == 10

\* how a procedure makes sure of the backend before it returns the URL:
\* startService's waitForServiceReady (which catches what a probe throws), a
\* loop of its own (which does not), or a fixed wait after which checks are
\* at most logged
VerificationOneMore(b) ==
    CASE b.rev = "current" /\ b.name \in {"runFullStackTestWithMongoDB", "deployFullStack"}
            -> [kind |-> "waitForServiceReady", bound |-> MaxAttempts(ReadyTimeoutMs),
                catches |-> TRUE]
      [] b.name = "startBackendRobust"
            -> [kind |-> "loop", bound |-> 11, catches |-> FALSE]
      [] b.rev = "part_001" /\ b.name = "startMongoDBBackendRobust"
            -> [kind |-> "loop", bound |-> 20, catches |-> FALSE]
      [] OTHER
            -> [kind |-> "delay", bound |-> 0, catches |-> FALSE]

Verification(b) ==
    CASE b.rev = "current" /\ b.name \in {"runFullStackTestWithMongoDB", "deployFullStack"}
            -> [kind |-> "waitForServiceReady", bound |-> MaxAttempts(ReadyTimeoutMs),
                catches |-> TRUE]
      [] b.name = "startBackendRobust"
            -> [kind |-> "loop", bound |-> RobustAttempts, catches |-> FALSE]
      [] b.rev = "part_001" /\ b.name = "startMongoDBBackendRobust"
            -> [kind |-> "loop", bound |-> 20, catches |-> FALSE]
      [] OTHER
            -> [kind |-> "delay", bound |-> 0, catches |-> FALSE]

\* the backend as the probes of startService see a service
ServiceStateOf(st) ==
    CASE st = "healthy"             -> "answering"
      [] st \in {"listening", "sick"} -> "listening"
      [] OTHER                      -> "down"

\* `curl -s -o /dev/null -w "%{http_code}" http://127.0.0.1:8000/`: with no
\* response curl writes 000
LoopCurlStdout(c) == IF c = "failed" THEN "000" ELSE c

\* the test that ends the verification: waitForServiceReady's, or
\* `portCheck.stdout.includes(':8000') && curlTest.stdout.trim() === '200'`
ProbePasses(kind, st, c) ==
    /\ Includes(PortCheckStdout(ServiceStateOf(st), Port), Port)
    /\ IF kind = "waitForServiceReady"
       THEN ReadyResponse(Trim(CurlCommandStdout(c)))
       ELSE Trim(LoopCurlStdout(c)) = "200"

\* one attempt of the verification: the wait, the port check and the HTTP
\* request. A passing attempt ends the procedure with the URL; a throwing
\* remote call ends the attempt where the loop catches it and the procedure
\* where it does not; the last attempt failing, the procedure throws
BootProbe(threw, c) ==
    /\ boot.pc = "verify"
    /\ LET v == Verification(boot.procedure) IN
        /\ v.kind # "delay"
        /\ c \in CurlOutcomes(ServiceStateOf(backend.state))
        /\ MayThrow(threw)
        /\ backend' = [backend EXCEPT !.faults = IF threw THEN @ + 1 ELSE @]
        /\ boot' =
            IF ~threw /\ ProbePasses(v.kind, backend.state, c)
            THEN [boot EXCEPT !.pc = "done", !.attempt = @ + 1,
                              !.verified = (ServiceStateOf(backend.state) # "down"
                                                /\ c # "failed")]
            ELSE IF threw /\ ~v.catches
            THEN [boot EXCEPT !.pc = "threw", !.attempt = @ + 1, !.probeThrew = TRUE,
                              !.cause = "remote"]
            ELSE IF boot.attempt + 1 >= v.bound
            THEN [boot EXCEPT !.pc = "threw", !.attempt = @ + 1,
                              !.probeThrew = @ \/ threw, !.cause = "notReady"]
            ELSE [boot EXCEPT !.attempt = @ + 1, !.probeThrew = @ \/ threw]
    /\ UNCHANGED <<cfg, svc, lifeVars, probeVars, cmdCall, poll, mongoVars, deployVars>>

\* a procedure without a probe returns the URL when its fixed wait is over
BootReturns ==
    /\ boot.pc = "verify"
    /\ Verification(boot.procedure).kind = "delay"
    /\ boot' = [boot EXCEPT !.pc = "done"]
    /\ UNCHANGED <<cfg, svc, lifeVars, probeVars, cmdCall, backend, poll, mongoVars, deployVars>>

\* the launched uvicorn binds port 8000, and then answers HTTP
BackendStarts ==
    /\ backend.state \in {"starting", "listening"}
    /\ backend' = [backend EXCEPT !.state = IF @ = "starting" THEN "listening"
                                                              ELSE "healthy"]
    /\ UNCHANGED <<cfg, svc, lifeVars, probeVars, cmdCall, boot, poll, mongoVars, deployVars>>

\* the running backend breaks: it keeps the port but fails /health ("sick"),
\* or it exits ("stopped")
BackendBreaks(st) ==
    /\ backend.state = "healthy"
    /\ backend.faults < MaxFaults
    /\ st \in {"sick", "stopped"}
    /\ backend' = [backend EXCEPT !.state = st, !.faults = @ + 1]
    /\ UNCHANGED <<cfg, svc, lifeVars, probeVars, cmdCall, boot, poll, mongoVars, deployVars>>

\* ------------------------------------ pollBackendStatus / restartBackendService
PollDurationMs     == 60000   \* pollBackendStatus(url, duration = 60000, interval = 5000)
PollTickMs         == 5000
AfterRestartWaitMs == 10000   \* setTimeout(resolve, 10000) after restartBackendService
KillWaitMs         == 3000    \* setTimeout(resolve, 3000) after `pkill -f uvicorn`
PortWaitMs         == 2000    \* setTimeout(resolve, 2000) after `fuser -k 8000/tcp`
SettleWaitMs       == 8000    \* setTimeout(resolve, 8000) after the relaunch

\* String.prototype.includes
StrIncludes(t, sub) ==
    \E i \in 1..(Len(t) - Len(sub) + 1) : SubSeq(t, i, i + Len(sub) - 1) = sub

RECURSIVE BeforeColon(_)
\* `output.split(':')[0]`
BeforeColon(t) ==
    IF Len(t) = 0 \/ SubSeq(t, 1, 1) = ":" THEN ""
    ELSE SubSeq(t, 1, 1) \o BeforeColon(SubSeq(t, 2, Len(t)))

\* the HTTP status `${url}/health` can meet, by the state of the backend
HealthCodes(st) ==
    CASE st = "healthy" -> {"200"}
      [] st = "sick"    -> {"500", "000"}
      [] OTHER          -> {"000"}

\* `curl -s -o /dev/null -w "%{http_code}:%{time_total}" URL || echo "000:0"`
HealthStdout(code) ==
    IF code = "000" THEN "000:0.000" \o "000:0\n" ELSE code \o ":0.012"

IsHealthyAnyStatus(threw, stdout) ==
    /\ ~threw
    /\ StrIncludes(Trim(stdout), ":")

\* checkBackendHealth: `isHealthy: statusCode === '200'`; a thrown runCommand
\* is caught and reported as isHealthy: false
IsHealthy(threw, stdout) ==
    /\ ~threw
    /\ StrIncludes(Trim(stdout), ":")
    /\ BeforeColon(Trim(stdout)) = "200"

\* `ss -tlnp | grep ":8000" || netstat -tlnp | grep ":8000" || echo "not_found"`
PortStatusStdout(st) ==
    IF st \in {"listening", "healthy", "sick"} THEN "LISTEN 0.0.0.0:8000\n"
    ELSE "not_found\n"

\* checkServiceStatus: `portStatus !== 'not_found' && portStatus.includes(':8000')`;
\* a thrown runCommand is caught and reported as isRunning: false
IsRunning(threw, stdout) ==
    /\ ~threw
    /\ Trim(stdout) # "not_found"
    /\ StrIncludes(Trim(stdout), ":8000")

NeedsRestartServiceOnly(isHealthy, isRunning) == ~isRunning

\* `if (!serviceStatus.isRunning || !healthStatus.isHealthy)`
NeedsRestart(isHealthy, isRunning) == ~isRunning \/ ~isHealthy

\* `logs.push({timestamp, status})`, status = {health, service}; met is what the
\* two checks met: whether their command threw, and the HTTP status of /health
StatusEntry(timestamp, met, isHealthy, isRunning) ==
    [kind |-> "status", timestamp |-> timestamp, met |-> met,
     isHealthy |-> isHealthy, isRunning |-> isRunning]

\* what the checks of a tick met, before any check
NothingMet == [healthThrew |-> FALSE, code |-> "none", statusThrew |-> FALSE]

\* pollBackendStatus is not running
NotPolling ==
    [pc        |-> "idle",    \* position in pollBackendStatus / restartBackendService
     startTime |-> 0,         \* const startTime = Date.now()
     logs      |-> <<>>,      \* the accumulated log
     restarts  |-> 0,         \* restartBackendService invocations
     steps     |-> <<>>,      \* the steps the running restart has completed
     isHealthy |-> TRUE,      \* healthStatus.isHealthy of the tick
     ticks     |-> 0,         \* turns of the loop begun
     timestamp |-> 0,         \* const timestamp of the tick
     met       |-> NothingMet]

\* what restartBackendService awaits, in the order of the code
RestartSteps ==
    <<"pkill", "wait3000", "fuser", "wait2000", "ls", "launch", "wait8000", "ps", "ss">>

RestartStepsLaunchEarly ==
    <<"pkill", "wait3000", "launch", "fuser", "wait2000", "ls", "wait8000", "ps", "ss">>

\* the steps that are remote requests
RemoteSteps == {"pkill", "fuser", "ls", "launch", "ps", "ss"}

\* the step after step s
RestartNextOf(order, s) ==
    LET i == CHOOSE k \in 1..Len(order) : order[k] = s IN
    IF i = Len(order) THEN "sleepAfterRestart" ELSE order[i + 1]

RestartNextLaunchEarly(s) == RestartNextOf(RestartStepsLaunchEarly, s)

RestartNext(s) == RestartNextOf(RestartSteps, s)

\* the time a step takes
StepTime(s) ==
    CASE s = "wait3000" -> KillWaitMs
      [] s = "wait2000" -> PortWaitMs
      [] s = "wait8000" -> SettleWaitMs
      [] OTHER          -> 0

\* what a completed step does to the backend
BackendAfter(s, st) ==
    CASE s \in {"pkill", "fuser"} -> IF st = "absent" THEN "absent" ELSE "stopped"
      [] s = "launch"             -> "starting"
      [] OTHER                    -> st

\* pollBackendStatus(url) is called once a bootstrap procedure has returned
PollBegin ==
    /\ boot.pc = "done"
    /\ poll.pc = "idle"
    /\ poll' = [NotPolling EXCEPT !.pc = "loop", !.startTime = now]
    /\ boot' = [NoBoot EXCEPT !.pc = "done"]
    /\ backend' = [backend EXCEPT !.launches = {}]
    /\ UNCHANGED <<cfg, svc, lifeVars, probeVars, cmdCall, mongoVars, deployVars>>

\* `while (Date.now() - startTime < duration)`: a tick begins with the health
\* check, or the polling ends and the log is returned
PollTick ==
    /\ poll.pc = "loop"
    /\ poll' = IF now - poll.startTime < PollDurationMs
               THEN [poll EXCEPT !.pc = "health", !.ticks = @ + 1, !.timestamp = now,
                                 !.met = NothingMet]
               ELSE [poll EXCEPT !.pc = "done"]
    /\ UNCHANGED <<cfg, svc, lifeVars, probeVars, cmdCall, backend, boot, mongoVars, deployVars>>

\* checkBackendHealth returns; checkServiceStatus is called
HealthReturns(threw, code) ==
    /\ poll.pc = "health"
    /\ code \in HealthCodes(backend.state)
    /\ MayThrow(threw)
    /\ poll' = [poll EXCEPT !.pc = "status",
                            !.met = [@ EXCEPT !.healthThrew = threw,
                                              !.code = IF threw THEN "none" ELSE code],
                            !.isHealthy = IsHealthy(threw, HealthStdout(code))]
    /\ backend' = [backend EXCEPT !.faults = IF threw THEN @ + 1 ELSE @]
    /\ UNCHANGED <<cfg, svc, lifeVars, probeVars, cmdCall, boot, mongoVars, deployVars>>

\* checkServiceStatus returns: the status is logged (and, 10 s into the
\* polling, the metrics, whose errors are ignored); on a failing tick
\* restartBackendService is called, otherwise the interval is waited out
StatusReturns(threw) ==
    /\ poll.pc = "status"
    /\ MayThrow(threw)
    /\ backend' = [backend EXCEPT !.faults = IF threw THEN @ + 1 ELSE @]
    /\ LET isRunning == IsRunning(threw, PortStatusStdout(backend.state))
           restart   == NeedsRestart(poll.isHealthy, isRunning)
           met       == [poll.met EXCEPT !.statusThrew = threw] IN
        poll' = [poll EXCEPT
                    !.met = met,
                    !.logs = Append(@, StatusEntry(poll.timestamp, met,
                                                   poll.isHealthy, isRunning)),
                    !.pc = IF restart THEN RestartSteps[1] ELSE "sleepInterval",
                    !.restarts = IF restart THEN @ + 1 ELSE @,
                    !.steps = <<>>]
    /\ UNCHANGED <<cfg, svc, lifeVars, probeVars, cmdCall, boot, mongoVars, deployVars>>

\* restartBackendService: the awaited step completes and the next one is issued
RestartStep ==
    /\ poll.pc \in {RestartSteps[i] : i \in 1..Len(RestartSteps)}
    /\ now' = now + StepTime(poll.pc)
    /\ backend' = [backend EXCEPT
                      !.state = BackendAfter(poll.pc, @),
                      !.launches = IF poll.pc = "launch"
                                   THEN @ \cup {Launch("uvicorn", "restartBackendService",
                                                       RestartRun)}
                                   ELSE @]
    /\ poll' = [poll EXCEPT !.steps = Append(@, poll.pc), !.pc = RestartNext(poll.pc)]
    /\ UNCHANGED <<cfg, svc, lifeVars, service, httpInTime, w, cmdCall, boot, mongoVars, deployVars>>

RestartThrowsUncaught ==
    /\ poll.pc \in RemoteSteps
    /\ MayThrow(TRUE)
    /\ backend' = [backend EXCEPT !.faults = @ + 1]
    /\ poll' = [poll EXCEPT
                  !.pc = "sleepInterval",
                  !.logs = Append(@, [kind |-> "error", timestamp |-> poll.timestamp,
                                      met |-> poll.met, isHealthy |-> FALSE,
                                      isRunning |-> FALSE])]
    /\ UNCHANGED <<cfg, svc, lifeVars, probeVars, cmdCall, boot, mongoVars, deployVars>>

\* a remote request of restartBackendService throws: the catch block logs
\* `Failed to restart backend service` and the restart is over
RestartThrows ==
    /\ poll.pc \in RemoteSteps
    /\ MayThrow(TRUE)
    /\ backend' = [backend EXCEPT !.faults = @ + 1]
    /\ poll' = [poll EXCEPT !.pc = "sleepAfterRestart"]
    /\ UNCHANGED <<cfg, svc, lifeVars, probeVars, cmdCall, boot, mongoVars, deployVars>>

\* the wait that ends a tick: 10 s after a restart, the interval otherwise
PollSleep ==
    /\ poll.pc \in {"sleepInterval", "sleepAfterRestart"}
    /\ now' = now + (IF poll.pc = "sleepAfterRestart" THEN AfterRestartWaitMs
                                                      ELSE PollTickMs)
    /\ poll' = [poll EXCEPT !.pc = "loop"]
    /\ UNCHANGED <<cfg, svc, lifeVars, service, httpInTime, w, cmdCall, backend, boot,
                   mongoVars, deployVars>>

\* ------------------------------------------------------------------ MongoDB
MongoAttempts == 15                  \* for (let i = 0; i < 15; i++)

MaxMongoCalls == 2                   \* calls of the MongoDB methods in one run

StartupMessage == "MongoDB failed to start within timeout period"
LogTail        == "aborting after fassert() failure"     \* stdout of `cat /tmp/mongodb.log`

Revisions == {"current", "part_001"}
MongoOps  == {"startMongoDB", "testMongoDBConnection", "executeMongoCommand"}

\* how a command ends: exit code 0, another exit code, or its time limit
\* passes and runCommand throws
Outcomes == {"ok", "failed", "timeout"}

\* the sandbox before any call: no daemon, the tools installed or not
NoMongod ==
    [rev         |-> "current",  \* the revision of the service that runs
     state       |-> "absent",   \* "absent" | "starting" | "accepting"
     installed   |-> FALSE,      \* mongod is on the PATH
     shell       |-> FALSE,      \* mongosh is on the PATH
     legacy      |-> FALSE,      \* the legacy shell `mongo` is on the PATH
     launches    |-> 0,          \* mongod launch commands received
     doubleStart |-> FALSE]      \* a launch arrived while a daemon was starting or running

\* no call in progress
NoMongoCall ==
    [pc        |-> "idle",       \* the request the call awaits
     op        |-> "none",       \* the public method called
     existed   |-> FALSE,        \* the daemon existed when startMongoDB was entered
     shellAvailable |-> FALSE,   \* let shellAvailable
     shellSteps |-> "none",      \* "none" | "failed": how the shell installation went
     i         |-> 0,            \* the loop counter
     issued    |-> {},           \* the kinds of command the call has issued
     socketOk  |-> FALSE,        \* the raw-socket check succeeded
     seed      |-> "none",       \* how the seeding command ended, "none" before it
     result    |-> "none",       \* "none" | "success" | "notConnected"
     error     |-> ""]           \* error.message of what was thrown

\* everything the MongoDB procedures leave alone
mongoFrame == <<cfg, svc, lifeVars, probeVars, cmdCall, backendVars, deployVars>>

\* `pgrep mongod`: exit code 0 when a mongod process exists
PgrepExit(st) == IF st \in {"starting", "accepting"} THEN 0 ELSE 1

\* `ss -tlnp | grep ":27017 " || netstat -tlnp | grep ":27017 "`
MongoPortStdout(st) == IF st = "accepting" THEN "LISTEN 0.0.0.0:27017 \n" ELSE ""

AlreadyRunningNever(exitCode) == FALSE

\* `if (checkResult.exitCode === 0)`: MongoDB is already running
AlreadyRunning(exitCode) == exitCode = 0

ReadyProbeShellOnly(rev, shellAvailable) ==
    IF rev = "current" THEN "ready" ELSE "loopPing"

\* what the readiness loop does once the port is listed: nothing more in the
\* current service; in part_001 the mongosh ping when a shell is available,
\* the raw-socket test otherwise
ReadyProbe(rev, shellAvailable) ==
    IF rev = "current" THEN "ready"
    ELSE IF shellAvailable THEN "loopPing"
    ELSE "loopSocket"

\* the message of the error thrown when the loop ends without isReady
StartupError(logStdout) == StartupMessage

\* startMongoDB returned {exitCode: 0}: its caller goes on (the loop counter
\* is gone with the loop)
Started(c) ==
    CASE c.op = "startMongoDB"          ->
            [c EXCEPT !.pc = "returned", !.result = "success", !.i = 0]
      [] c.op = "testMongoDBConnection" ->
            [c EXCEPT !.pc = "ping", !.issued = @ \cup {"shell"}, !.i = 0]
      [] c.op = "executeMongoCommand"   ->
            [c EXCEPT !.pc = "exec", !.issued = @ \cup {"shell"}, !.i = 0]

\* startMongoDB threw (its catch block logs and throws again):
\* testMongoDBConnection catches and reports it, the others pass it on
Thrown(c, message) ==
    IF c.op = "testMongoDBConnection"
    THEN [c EXCEPT !.pc = "returned", !.result = "notConnected", !.error = message,
                   !.i = 0]
    ELSE [c EXCEPT !.pc = "threw", !.error = message, !.i = 0]

\* isReady = true; break: in part_001 the database is seeded through the shell
\* when there is one
Ready(c) ==
    IF mongod.rev = "part_001" /\ c.shellAvailable
    THEN [c EXCEPT !.pc = "dbInit", !.issued = @ \cup {"dbInit"}, !.i = 0]
    ELSE Started(c)

\* the step after the server installation: the shell checks of part_001, or
\* the launch
AfterServer(c) ==
    IF mongod.rev = "part_001"
    THEN [c EXCEPT !.pc = "whichShell"]
    ELSE [c EXCEPT !.pc = "launch", !.issued = @ \cup {"launch"}]

\* an attempt ends without isReady: `setTimeout(resolve, 2000)`, i++ and the
\* next `pgrep mongod`, or after the last attempt
\* `throw new Error('MongoDB failed to start within timeout period')`, which
\* part_001 precedes by reading the logs and writing them to the logger
NextAttempt(c) ==
    IF c.i + 1 < MongoAttempts
    THEN [c EXCEPT !.pc = "loopPgrep", !.i = @ + 1]
    ELSE IF mongod.rev = "part_001"
    THEN [c EXCEPT !.pc = "readLog", !.i = 0]
    ELSE Thrown(c, StartupError(""))

\* callers are interchangeable: a new call takes the lowest free slot
MongoCanBegin(p) ==
    /\ svc = "ready"
    /\ EnsureBranch(sandbox, sandboxCreationPromise) = "return"
    /\ mongoCall[p].pc = "idle"
    /\ \A q \in Procs : q < p => mongoCall[q].pc # "idle"
    /\ calls < MaxMongoCalls

\* a public method is called (executeMongoCommand is a method of part_001);
\* each begins with `pgrep mongod`, in testMongoDBConnection ahead of
\* startMongoDB, otherwise inside it
MongoBegin(p, o) ==
    /\ MongoCanBegin(p)
    /\ o = "executeMongoCommand" => mongod.rev = "part_001"
    /\ mongoCall' = [mongoCall EXCEPT ![p] =
            [NoMongoCall EXCEPT
                !.op = o,
                !.pc = IF o = "testMongoDBConnection" THEN "testPgrep" ELSE "pgrep",
                !.existed = (o # "testMongoDBConnection"
                                /\ mongod.state \in {"starting", "accepting"})]]
    /\ calls' = calls + 1
    /\ UNCHANGED <<cfg, svc, sandbox, sandboxCreationPromise, createState, createdBy,
                   nCreates, killCalls, killed, proc, period, resolved, released,
                   closeDone, probeVars, cmdCall, backendVars, deployVars, mongod>>

\* testMongoDBConnection: `if (processCheck.exitCode !== 0) await this.startMongoDB()`
TestPgrepReturns(p) ==
    /\ mongoCall[p].pc = "testPgrep"
    /\ mongoCall' = [mongoCall EXCEPT ![p] =
            IF PgrepExit(mongod.state) # 0
            THEN [@ EXCEPT !.pc = "pgrep",
                           !.existed = mongod.state \in {"starting", "accepting"}]
            ELSE [@ EXCEPT !.pc = "ping", !.issued = @ \cup {"shell"}]]
    /\ UNCHANGED <<mongoFrame, mongod>>

\* startMongoDB: the first check; a running daemon ends the call with
\* {exitCode: 0}, otherwise the data directory is made
PgrepReturns(p) ==
    /\ mongoCall[p].pc = "pgrep"
    /\ mongoCall' = [mongoCall EXCEPT ![p] =
            IF AlreadyRunning(PgrepExit(mongod.state))
            THEN Started(@)
            ELSE [@ EXCEPT !.pc = "dataDir", !.issued = @ \cup {"dataDir"}]]
    /\ UNCHANGED <<mongoFrame, mongod>>

\* `mkdir -p /tmp/mongodb-data`, `chmod 755`: then `which mongod`
DataDirReturns(p) ==
    /\ mongoCall[p].pc = "dataDir"
    /\ mongoCall' = [mongoCall EXCEPT ![p].pc = "whichMongod"]
    /\ UNCHANGED <<mongoFrame, mongod>>

\* `if (mongoCheck.exitCode !== 0)` the server is installed
WhichMongodReturns(p) ==
    /\ mongoCall[p].pc = "whichMongod"
    /\ mongoCall' = [mongoCall EXCEPT ![p] =
            IF mongod.installed THEN AfterServer(@)
            ELSE [@ EXCEPT !.pc = "install", !.issued = @ \cup {"install"}]]
    /\ UNCHANGED <<mongoFrame, mongod>>

\* the apt-get commands of the server installation end; their exit codes are
\* not looked at, a timeout is thrown
InstallReturns(p, out) ==
    /\ mongoCall[p].pc = "install"
    /\ mongod' = [mongod EXCEPT !.installed = @ \/ out = "ok"]
    /\ mongoCall' = [mongoCall EXCEPT ![p] =
            IF out = "timeout" THEN Thrown(@, "TimeoutError") ELSE AfterServer(@)]
    /\ UNCHANGED mongoFrame

\* part_001: `which mongosh`, `which mongo`; with neither,
\* `apt-get install -y mongodb-mongosh` is tried
WhichShellReturns(p) ==
    /\ mongoCall[p].pc = "whichShell"
    /\ mongoCall' = [mongoCall EXCEPT ![p] =
            IF mongod.shell \/ mongod.legacy
            THEN [@ EXCEPT !.pc = "launch", !.shellAvailable = TRUE,
                           !.issued = @ \cup {"launch"}]
            ELSE [@ EXCEPT !.pc = "shellInstall", !.issued = @ \cup {"shellInstall"}]]
    /\ UNCHANGED <<mongoFrame, mongod>>

\* the mongosh installation ends: on exit code 0 the shell is verified, on
\* another one `apt-get install -y mongodb-org-shell` is tried
ShellInstallReturns(p, out) ==
    /\ mongoCall[p].pc = "shellInstall"
    /\ mongod' = [mongod EXCEPT !.shell = @ \/ out = "ok"]
    /\ mongoCall' = [mongoCall EXCEPT ![p] =
            CASE out = "ok"      -> [@ EXCEPT !.pc = "launch", !.shellAvailable = TRUE,
                                              !.issued = @ \cup {"launch"}]
              [] out = "failed"  -> [@ EXCEPT !.pc = "shellInstallAlt"]
              [] out = "timeout" -> Thrown([@ EXCEPT !.shellSteps = "failed"], "TimeoutError")]
    /\ UNCHANGED mongoFrame

\* the alternative installation ends and `which mongosh`, `which mongo` look
\* for the shell it brought, taken here to be mongosh (a sandbox with the
\* legacy shell alone is an initial state); whatever its exit code, the launch
\* follows
ShellInstallAltReturns(p, out) ==
    /\ mongoCall[p].pc = "shellInstallAlt"
    /\ mongod' = [mongod EXCEPT !.shell = @ \/ out = "ok"]
    /\ mongoCall' = [mongoCall EXCEPT ![p] =
            CASE out = "ok"      -> [@ EXCEPT !.pc = "launch", !.shellAvailable = TRUE,
                                              !.issued = @ \cup {"launch"}]
              [] out = "failed"  -> [@ EXCEPT !.pc = "launch", !.shellSteps = "failed",
                                              !.issued = @ \cup {"launch"}]
              [] out = "timeout" -> Thrown([@ EXCEPT !.shellSteps = "failed"], "TimeoutError")]
    /\ UNCHANGED mongoFrame

\* `sandbox.commands.run('mongod --dbpath ...', {cwd, background: true})`
\* settles: a daemon starts when mongod is installed and none holds the data
\* directory; the readiness loop begins with `pgrep mongod`
MongoLaunchReturns(p) ==
    /\ mongoCall[p].pc = "launch"
    /\ mongod' = [mongod EXCEPT
            !.launches = @ + 1,
            !.doubleStart = @ \/ mongod.state \in {"starting", "accepting"},
            !.state = IF mongod.installed /\ @ = "absent" THEN "starting" ELSE @]
    /\ mongoCall' = [mongoCall EXCEPT ![p].pc = "loopPgrep"]
    /\ UNCHANGED mongoFrame

\* the daemon binds port 27017 and accepts connections
MongodListens ==
    /\ mongod.state = "starting"
    /\ mongod' = [mongod EXCEPT !.state = "accepting"]
    /\ UNCHANGED <<mongoFrame, mongoCall>>

\* loop: `if (processCheck.exitCode === 0)` the port is checked
LoopPgrepReturns(p) ==
    /\ mongoCall[p].pc = "loopPgrep"
    /\ mongoCall' = [mongoCall EXCEPT ![p] =
            IF PgrepExit(mongod.state) = 0 THEN [@ EXCEPT !.pc = "loopPort"]
            ELSE NextAttempt(@)]
    /\ UNCHANGED <<mongoFrame, mongod>>

\* loop: `if (portCheck.stdout.includes(':27017'))` the daemon is ready, or
\* (part_001) probed once more
LoopPortReturns(p) ==
    /\ mongoCall[p].pc = "loopPort"
    /\ mongoCall' = [mongoCall EXCEPT ![p] =
            IF StrIncludes(MongoPortStdout(mongod.state), ":27017")
            THEN LET probe == ReadyProbe(mongod.rev, @.shellAvailable) IN
                 CASE probe = "ready"      -> Ready(@)
                   [] probe = "loopPing"   -> [@ EXCEPT !.pc = "loopPing",
                                                        !.issued = @ \cup {"loopPing"}]
                   [] probe = "loopSocket" -> [@ EXCEPT !.pc = "loopSocket"]
            ELSE NextAttempt(@)]
    /\ UNCHANGED <<mongoFrame, mongod>>

\* part_001: `mongosh --eval "db.adminCommand('ping')"` returns
LoopPingReturns(p) ==
    /\ mongoCall[p].pc = "loopPing"
    /\ mongoCall' = [mongoCall EXCEPT ![p] =
            IF mongod.shell /\ mongod.state = "accepting"
            THEN Ready(@) ELSE NextAttempt(@)]
    /\ UNCHANGED <<mongoFrame, mongod>>

\* part_001: the /dev/tcp test, and after it the python socket test, return
LoopSocketReturns(p) ==
    /\ mongoCall[p].pc = "loopSocket"
    /\ mongoCall' = [mongoCall EXCEPT ![p] =
            IF mongod.state = "accepting"
            THEN Ready([@ EXCEPT !.socketOk = TRUE]) ELSE NextAttempt(@)]
    /\ UNCHANGED <<mongoFrame, mongod>>

\* a check of the loop runs into its limit: part_001 catches it inside the
\* loop, the current service lets it end startMongoDB
LoopCheckThrows(p) ==
    /\ mongoCall[p].pc \in {"loopPgrep", "loopPort", "loopPing", "loopSocket"}
    /\ mongod.state = "starting"
    /\ mongoCall' = [mongoCall EXCEPT ![p] =
            IF mongod.rev = "part_001" THEN NextAttempt(@)
            ELSE Thrown(@, "TimeoutError")]
    /\ UNCHANGED <<mongoFrame, mongod>>

\* part_001: `cat /tmp/mongodb.log` and `cat /tmp/mongod-start.log` return,
\* their output goes to the logger and the startup error is thrown
ReadLogReturns(p) ==
    /\ mongoCall[p].pc = "readLog"
    /\ mongoCall' = [mongoCall EXCEPT ![p] = Thrown(@, StartupError(LogTail))]
    /\ UNCHANGED <<mongoFrame, mongod>>

AfterSeedStrict(c, out) ==
    IF out = "ok" THEN Started(c) ELSE Thrown(c, "seeding failed")

\* the try/catch around the seeding command: its exit code is only logged, its
\* throw is caught and logged as a warning; `return {..., exitCode: 0}` follows
AfterSeed(c, out) == Started(c)

\* part_001: the seeding command returns or throws
DbInitReturns(p, out) ==
    /\ mongoCall[p].pc = "dbInit"
    /\ mongoCall' = [mongoCall EXCEPT ![p] = AfterSeed([@ EXCEPT !.seed = out], out)]
    /\ UNCHANGED <<mongoFrame, mongod>>

\* the mongosh command of testMongoDBConnection / executeMongoCommand returns
ShellCommandReturns(p) ==
    /\ mongoCall[p].pc \in {"ping", "exec"}
    /\ mongoCall' = [mongoCall EXCEPT ![p] =
            [@ EXCEPT !.pc = "returned",
                      !.result = IF mongod.shell /\ mongod.state = "accepting"
                                 THEN "success" ELSE "notConnected"]]
    /\ UNCHANGED <<mongoFrame, mongod>>

\* the caller has the result or the error
MongoReturn(p) ==
    /\ mongoCall[p].pc \in {"returned", "threw"}
    /\ mongoCall' = [mongoCall EXCEPT ![p] = NoMongoCall]
    /\ UNCHANGED <<mongoFrame, mongod>>

\* ------------------------------------------------- files and deployment workflows
\* GenAiCodeGenerationService.deployGeneratedCodeToSandbox and the two workflows of
\* SandboxService that deploy a stock project. A path is the sequence of its
\* segments: '/home/backend/app/models.py' is <<"home", "backend", "app", "models.py">>.
MaxDeploys == 2      \* deployment workflows run one after the other on a sandbox

BackendDir  == <<"home", "backend">>
FrontendDir == <<"home", "frontend">>

Workflows == {"runFullStackTestWithMongoDB", "deployFullStack",
              "deployGeneratedCodeToSandbox"}

\* fullPath.substring(0, fullPath.lastIndexOf('/'))
Parent(path) == SubSeq(path, 1, Len(path) - 1)

NoEnv == {}

\* recursive: whether the provider's makeDir and write create missing parents;
\* dirs: the directory entries of the sandbox, as a listing returns them;
\* made, again, written: the paths createDirectory was called on, those it was
\* called on when they existed, and the paths writeFile was called on
NoFiles ==
    [recursive |-> FALSE,
     dirs      |-> << <<"home">> >>,
     files     |-> {},
     env       |-> NoEnv,
     made      |-> {},
     again     |-> {},
     written   |-> {}]

Exists(f, path) == path = << >> \/ \E i \in 1..Len(f.dirs) : f.dirs[i] = path

\* the entries of dirs with the missing directories of path added, outermost first
RECURSIVE AddDirs(_, _, _)
AddDirs(dirs, path, n) ==
    IF n > Len(path) THEN dirs
    ELSE LET d == SubSeq(path, 1, n) IN
         AddDirs(IF \E i \in 1..Len(dirs) : dirs[i] = d THEN dirs ELSE Append(dirs, d),
                 path, n + 1)

\* listFiles(dirPath): the directories listed under dirPath
ListFiles(f, dirPath) == SelectSeq(f.dirs, LAMBDA d : Len(d) > 0 /\ Parent(d) = dirPath)

\* how often the listing of its parent shows the directory
Shown(f, path) == Len(SelectSeq(ListFiles(f, Parent(path)), LAMBDA d : d = path))

\* createDirectory(dirPath) is sandbox.files.makeDir(dirPath) and nothing else:
\* makeDir answers false for a directory that exists and creates it otherwise
MakeDirAppends(f, dirPath) ==
    [fs |-> [f EXCEPT !.made = @ \cup {dirPath},
                      !.again = IF Exists(f, dirPath) THEN @ \cup {dirPath} ELSE @,
                      !.dirs = Append(@, dirPath)],
     error |-> "none"]

MakeDir(f, dirPath) ==
    LET called == [f EXCEPT !.made = @ \cup {dirPath}] IN
    IF Exists(f, dirPath)
    THEN [fs |-> [called EXCEPT !.again = @ \cup {dirPath}], error |-> "none"]
    ELSE IF Exists(f, Parent(dirPath)) \/ f.recursive
         THEN [fs |-> [called EXCEPT !.dirs = AddDirs(@, dirPath, 1)], error |-> "none"]
         ELSE [fs |-> called, error |-> "NotFound"]

\* writeFile(filePath, content) is sandbox.files.write(filePath, content)
WriteFile(f, filePath) ==
    LET called == [f EXCEPT !.written = @ \cup {filePath}] IN
    IF Exists(f, Parent(filePath)) \/ f.recursive
    THEN [fs |-> [called EXCEPT !.dirs = AddDirs(@, Parent(filePath), 1),
                                !.files = @ \cup {filePath}],
          error |-> "none"]
    ELSE [fs |-> called, error |-> "NotFound"]

\* the file operations ops (<<"makeDir" | "write", path>>) made one after the
\* other from position n; the first that fails ends the sequence
RECURSIVE FileOps(_, _, _)
FileOps(f, ops, n) ==
    IF n > Len(ops) THEN [fs |-> f, error |-> "none"]
    ELSE LET r == IF ops[n][1] = "makeDir" THEN MakeDir(f, ops[n][2])
                  ELSE WriteFile(f, ops[n][2]) IN
         IF r.error # "none" THEN r ELSE FileOps(r.fs, ops, n + 1)

\* `https://${sandbox.getHost(port)}`
ServiceUrl(port) == [host |-> sandbox, port |-> port]

NoUrl == [host |-> NoSandbox, port |-> 0]

\* the content of .env.local
EnvFileLoopback(workflow, backendUrl) ==
    {<<"NEXT_PUBLIC_API_URL", [host |-> NoSandbox, port |-> 8000]>>}

EnvFile(workflow, backendUrl) ==
    IF workflow = "deployGeneratedCodeToSandbox"
    THEN {<<"NEXT_PUBLIC_BACKEND_URL", backendUrl>>, <<"NEXT_PUBLIC_API_URL", backendUrl>>}
    ELSE {<<"NEXT_PUBLIC_API_URL", backendUrl>>}

\* project.code.backend.files and project.code.frontend.files, in the order of
\* Object.entries; each path is relative to the directory of its side
BackendFileLists ==
    { << <<"main.py">> >>,
      << <<"main.py">>, <<"app", "models.py">> >>,
      << <<"main.py">>, <<"app", "api", "routes.py">> >> }

FrontendFileLists ==
    { << <<"app", "page.js">> >>,
      << <<"app", "page.tsx">>, <<"app", "api", "todos", "route.ts">> >>,
      << <<"components", "ui", "Button.tsx">> >> }

\* mongodb: project.template.includes('mongodb'); next: isNextJs
Projects ==
    [mongodb : BOOLEAN, next : BOOLEAN,
     backendFiles : BackendFileLists, frontendFiles : FrontendFileLists]

\* what runFullStackTestWithMongoDB and deployFullStack deploy
StockProject(workflow) ==
    [mongodb       |-> workflow = "runFullStackTestWithMongoDB",
     next          |-> TRUE,
     backendFiles  |-> << <<"main.py">>, <<"requirements.txt">> >>,
     frontendFiles |-> << >>]

NoDeploy ==
    [pc               |-> "idle",
     workflow         |-> "none",
     project          |-> StockProject("none"),
     approach         |-> "none",    \* deployFrontend: "fast" | "manual"
     k                |-> 0,         \* the file of the list being written
     backendUrl       |-> NoUrl,     \* backendService.url, once startService returned
     backendReturned  |-> FALSE,
     envWrites        |-> 0,         \* writes of .env.local by this call
     frontendLaunches |-> 0,         \* startService calls for the frontend
     raised           |-> {},        \* steps in which a deadline-exceeded error was raised
     installFailed    |-> FALSE,     \* a dependency installation ended with a non-zero exit code
     error            |-> "none",
     n                |-> 0]         \* workflows run before this one

Generated(d) == d.workflow = "deployGeneratedCodeToSandbox"

\* a step failed: `failed` is a non-zero exit code or an error of the provider,
\* `timeout` the TimeoutError of a command or a readiness wait that gave up
ErrorOf(out) == IF out = "timeout" THEN "TimeoutError" ELSE "Error"

Raise(d, step, out) ==
    [d EXCEPT !.raised = IF out = "timeout" THEN @ \cup {step} ELSE @]

\* the error leaves the workflow through its catch block, which throws it again;
\* deployFullStack throws a new Error that carries the message
DeployThrowsGoesOn(d, step, out) ==
    [Raise(d, step, out) EXCEPT
        !.pc = IF d.workflow = "deployGeneratedCodeToSandbox" THEN "createFrontendDir"
               ELSE "createNextAppFast"]

DeployThrows(d, step, out) ==
    [Raise(d, step, out) EXCEPT
        !.pc = "threw",
        !.error = IF d.workflow = "deployFullStack" THEN "Error" ELSE ErrorOf(out)]

\* an installation command returned: a non-zero exit code is noted
Installed(d, out) == [d EXCEPT !.installFailed = @ \/ out = "failed"]

deployFrame == <<cfg, svc, lifeVars, probeVars, cmdCall, backendVars, mongoVars>>

\* filePath.replace('.js', '.tsx') for a file under /app/ whose name ends in .js
TargetPath(filePath) ==
    IF filePath[1] = "app" /\ filePath[Len(filePath)] = "page.js"
    THEN [filePath EXCEPT ![Len(filePath)] = "page.tsx"]
    ELSE filePath

\* one turn of a file loop of deployBackend / deployFrontend: createDirectory on
\* the directory of the file unless it is the base directory, then writeFile
WriteProjectFile(baseDir, filePath) ==
    LET fullPath == baseDir \o filePath
        dirPath  == Parent(fullPath) IN
    (IF dirPath # baseDir THEN << <<"makeDir", dirPath>> >> ELSE << >>)
        \o << <<"write", fullPath>> >>

\* createNextAppFast('frontend', '/home') up to its `npm install`
NextAppFiles ==
    << <<"makeDir", FrontendDir>>,
       <<"write", FrontendDir \o <<"package.json">> >>,
       <<"write", FrontendDir \o <<"tailwind.config.js">> >>,
       <<"write", FrontendDir \o <<"postcss.config.js">> >>,
       <<"write", FrontendDir \o <<"tsconfig.json">> >>,
       <<"write", FrontendDir \o <<"next.config.js">> >>,
       <<"makeDir", FrontendDir \o <<"app">> >>,
       <<"write", FrontendDir \o <<"app", "globals.css">> >>,
       <<"write", FrontendDir \o <<"app", "layout.tsx">> >>,
       <<"write", FrontendDir \o <<"app", "page.tsx">> >> >>

\* deployFrontend gives up the fast approach and goes on with the manual one
Manual(d) == [d EXCEPT !.pc = "frontendFile", !.approach = "manual", !.k = 1]

DeployBegin(workflow, project) ==
    /\ dep.pc = "idle"
    /\ dep.n < MaxDeploys
    /\ sandbox # NoSandbox
    /\ dep' = [dep EXCEPT
                 !.workflow = workflow,
                 !.project = IF workflow = "deployGeneratedCodeToSandbox" THEN project
                             ELSE StockProject(workflow),
                 !.pc = IF workflow = "runFullStackTestWithMongoDB"
                           \/ (workflow = "deployGeneratedCodeToSandbox" /\ project.mongodb)
                        THEN "startMongoDB" ELSE "createBackendDir"]
    /\ UNCHANGED <<deployFrame, fs>>

\* startMongoDB settles: deployGeneratedCodeToSandbox catches its error, logs a
\* warning and goes on; runFullStackTestWithMongoDB lets it through
MongoSettles(out) ==
    /\ dep.pc = "startMongoDB"
    /\ dep' = IF out = "ok" THEN [dep EXCEPT !.pc = "createBackendDir"]
              ELSE IF Generated(dep)
                   THEN [Raise(dep, "startMongoDB", out) EXCEPT !.pc = "createBackendDir"]
                   ELSE DeployThrows(dep, "startMongoDB", out)
    /\ UNCHANGED <<deployFrame, fs>>

BackendDirMade ==
    /\ dep.pc = "createBackendDir"
    /\ LET r == MakeDir(fs, BackendDir) IN
         /\ fs' = r.fs
         /\ dep' = IF r.error # "none" THEN DeployThrows(dep, "createDirectory", "failed")
                   ELSE [dep EXCEPT !.pc = "backendFile", !.k = 1]
    /\ UNCHANGED deployFrame

\* the file loop of the backend; deployBackend writes the dependency files after it
BackendFileWritten ==
    /\ dep.pc = "backendFile"
    /\ LET files == dep.project.backendFiles
           last  == dep.k = Len(files)
           deps  == IF last /\ Generated(dep)
                    THEN << <<"write", BackendDir \o <<"requirements.txt">> >> >>
                    ELSE << >>
           r     == FileOps(fs, WriteProjectFile(BackendDir, files[dep.k]) \o deps, 1) IN
         /\ fs' = r.fs
         /\ dep' = IF r.error # "none" THEN DeployThrows(dep, "writeFile", "failed")
                   ELSE IF last THEN [dep EXCEPT !.pc = "pipInstall", !.k = 0]
                   ELSE [dep EXCEPT !.k = @ + 1]
    /\ UNCHANGED deployFrame

\* `python3 -m pip install -r requirements.txt`: a non-zero exit code is thrown
PipInstallSettles(out) ==
    /\ dep.pc = "pipInstall"
    /\ dep' = IF out = "ok" THEN [dep EXCEPT !.pc = "backendStart"]
              ELSE DeployThrows(Installed(dep, out), "pipInstall", out)
    /\ UNCHANGED <<deployFrame, fs>>

\* startService for the backend settles; deployBackend then waits 8 s and runs a
\* health check whose error it only logs
BackendStartSettles(out, health) ==
    /\ dep.pc = "backendStart"
    /\ dep' = IF out # "ok" THEN DeployThrows(dep, "startService", out)
              ELSE IF Generated(dep)
                   THEN [Raise(dep, "healthCheck", health) EXCEPT
                           !.pc = "createFrontendDir",
                           !.backendUrl = ServiceUrl(8000), !.backendReturned = TRUE]
                   ELSE [dep EXCEPT
                           !.pc = "createNextAppFast", !.approach = "fast",
                           !.backendUrl = ServiceUrl(8000), !.backendReturned = TRUE]
    /\ UNCHANGED <<deployFrame, fs>>

FrontendDirMade ==
    /\ dep.pc = "createFrontendDir"
    /\ LET r == MakeDir(fs, FrontendDir) IN
         /\ fs' = r.fs
         /\ dep' = IF r.error # "none" THEN DeployThrows(dep, "createDirectory", "failed")
                   ELSE IF dep.project.next
                        THEN [dep EXCEPT !.pc = "createNextAppFast", !.approach = "fast"]
                        ELSE Manual(dep)
    /\ UNCHANGED deployFrame

\* createNextAppFast settles: out is what its `npm install` came to (`failed`: a
\* non-zero exit code in the result; `timeout`: thrown). deployFrontend falls back
\* to the manual approach on any failure; the other workflows throw
CreateNextAppFastSettles(out) ==
    /\ dep.pc = "createNextAppFast"
    /\ LET r == FileOps(fs, NextAppFiles, 1)
           o == IF r.error # "none" THEN "failed" ELSE out IN
         /\ fs' = r.fs
         /\ dep' = IF o = "ok"
                   THEN IF Generated(dep) THEN [dep EXCEPT !.pc = "frontendFile", !.k = 1]
                        ELSE IF dep.workflow = "runFullStackTestWithMongoDB"
                             THEN [dep EXCEPT !.pc = "writeEnv"]
                             ELSE [dep EXCEPT !.pc = "frontendStart"]
                   ELSE LET d == IF r.error = "none" THEN Installed(dep, out) ELSE dep IN
                        IF Generated(dep) THEN Manual(Raise(d, "createNextAppFast", o))
                        ELSE DeployThrows(d, "createNextAppFast", o)
    /\ UNCHANGED deployFrame

\* the file loop of deployFrontend, of the fast or of the manual approach; the
\* manual approach writes the dependency files after it
FrontendFileWritten ==
    /\ dep.pc = "frontendFile"
    /\ LET files    == dep.project.frontendFiles
           last     == dep.k = Len(files)
           filePath == IF dep.approach = "fast" THEN TargetPath(files[dep.k])
                       ELSE files[dep.k]
           deps     == IF last /\ dep.approach = "manual"
                       THEN << <<"write", FrontendDir \o <<"package.json">> >> >>
                       ELSE << >>
           r        == FileOps(fs, WriteProjectFile(FrontendDir, filePath) \o deps, 1) IN
         /\ fs' = r.fs
         /\ dep' = IF r.error # "none"
                   THEN IF dep.approach = "fast" THEN Manual(dep)
                        ELSE DeployThrows(dep, "writeFile", "failed")
                   ELSE IF last THEN [dep EXCEPT !.pc = "writeEnv", !.k = 0]
                   ELSE [dep EXCEPT !.k = @ + 1]
    /\ UNCHANGED deployFrame

\* .env.local is written from the URL the backend's startService returned;
\* runFullStackTestWithMongoDB writes app/page.tsx after it, the fast approach of
\* deployFrontend next.config.js
EnvFileWritten ==
    /\ dep.pc = "writeEnv"
    /\ LET more == IF Generated(dep)
                   THEN IF dep.approach = "fast"
                        THEN << <<"write", FrontendDir \o <<"next.config.js">> >> >>
                        ELSE << >>
                   ELSE << <<"write", FrontendDir \o <<"app", "page.tsx">> >> >>
           r    == FileOps(fs, << <<"write", FrontendDir \o <<".env.local">> >> >> \o more, 1) IN
         IF r.error # "none"
         THEN /\ fs' = r.fs
              /\ dep' = IF Generated(dep) /\ dep.approach = "fast" THEN Manual(dep)
                        ELSE DeployThrows(dep, "writeFile", "failed")
         ELSE /\ fs' = [r.fs EXCEPT !.env = EnvFile(dep.workflow, dep.backendUrl)]
              /\ dep' = [dep EXCEPT
                           !.envWrites = @ + 1,
                           !.pc = IF Generated(dep) /\ dep.approach = "manual"
                                  THEN "npmInstall" ELSE "frontendStart"]
    /\ UNCHANGED deployFrame

\* `npm install` of the manual approach; after a non-zero exit code it is tried
\* again with --legacy-peer-deps (alt), whose non-zero exit code is thrown
NpmInstallSettles(out, alt) ==
    /\ dep.pc = "npmInstall"
    /\ LET d == Installed(dep, out) IN
       dep' = IF out = "ok" \/ (out = "failed" /\ alt = "ok")
              THEN [d EXCEPT !.pc = "frontendStart"]
              ELSE IF out = "failed" THEN DeployThrows(d, "npmInstall", alt)
              ELSE DeployThrows(d, "npmInstall", out)
    /\ UNCHANGED <<deployFrame, fs>>

\* startService for the frontend settles; the fast approach of deployFrontend
\* calls it inside the try block whose catch falls back to the manual approach
FrontendStartSettles(out) ==
    /\ dep.pc = "frontendStart"
    /\ LET d == [dep EXCEPT !.frontendLaunches = @ + 1] IN
       dep' = IF out = "ok" THEN [d EXCEPT !.pc = "returned"]
              ELSE IF Generated(d) /\ d.approach = "fast"
                   THEN Manual(Raise(d, "startService", out))
                   ELSE DeployThrows(d, "startService", out)
    /\ UNCHANGED <<deployFrame, fs>>

\* the workflow has returned or thrown; the sandbox keeps its files
DeployEnds ==
    /\ dep.pc \in {"returned", "threw"}
    /\ dep' = [NoDeploy EXCEPT !.n = dep.n + 1]
    /\ UNCHANGED <<deployFrame, fs>>

\* ---------------------------------------------------------- specification
\* no command, bootstrap or polling call is running
OpsIdle ==
    /\ cmdCall = NoCall
    /\ backend = NoBackend
    /\ boot = NoBoot
    /\ poll = NotPolling
    /\ mongod = NoMongod
    /\ mongoCall = [p \in Procs |-> NoMongoCall]
    /\ fs = NoFiles
    /\ dep = NoDeploy

Init ==
    /\ cfg \in [templateId : BOOLEAN, apiKey : BOOLEAN]
    /\ svc = "unbuilt"
    /\ sandbox = NoSandbox
    /\ sandboxCreationPromise = NoSandbox
    /\ createState = [n \in SandboxIds |-> "none"]
    /\ createdBy = [n \in SandboxIds |-> [by |-> "none", period |-> 0]]
    /\ nCreates = 0
    /\ killCalls = [n \in 0..MaxCreates |-> 0]
    /\ killed = {}
    /\ proc = [p \in Procs |-> Idle]
    /\ calls = 0
    /\ period = 0
    /\ resolved = {}
    /\ released = {}
    /\ closeDone = FALSE
    /\ now = 0
    /\ service = "absent"
    /\ httpInTime = FALSE
    /\ w = NotWaiting
    /\ OpsIdle

Next ==
    \/ Construct
    \/ \E p \in Procs : EnsureReturns(p, "primitive")
    \/ \E p \in Procs : EnsureJoins(p, "primitive")
    \/ \E p \in Procs : EnsureCreates(p, "primitive")
    \/ \E p \in Procs, ok \in BOOLEAN : CreateSettles(p, ok)
    \/ \E p \in Procs : JoinSettles(p)
    \/ \E p \in Procs, o \in PrimOps : IssueRemote(p, o)
    \/ \E p \in Procs, ok \in BOOLEAN : RemoteSettles(p, ok)
    \/ \E p \in Procs : Return(p)
    \/ \E p \in Procs : CloseKills(p)
    \/ \E p \in Procs : CloseNoop(p)
    \/ \E p \in Procs, ok \in BOOLEAN : KillSettles(p, ok)
    \/ \E p \in Procs : TestBegin(p)
    \/ \E p \in Procs, ok \in BOOLEAN : TestCreateSettles(p, ok)
    \/ \E p \in Procs, ok \in BOOLEAN : TestRunSettles(p, ok)
    \/ \E p \in Procs, ok \in BOOLEAN : TestKillSettles(p, ok)

Spec == Init /\ [][Next]_vars

\* the service is constructed; it holds a sandbox from earlier use, or none
SvcInit ==
    /\ cfg = [templateId |-> TRUE, apiKey |-> TRUE]
    /\ svc = "ready"
    /\ sandbox \in {NoSandbox, 1}
    /\ sandboxCreationPromise = NoSandbox
    /\ createState = [n \in SandboxIds |-> IF n = sandbox THEN "ok" ELSE "none"]
    /\ createdBy = [n \in SandboxIds |->
                        [by |-> IF n = sandbox THEN "ensureSandbox" ELSE "none",
                         period |-> 0]]
    /\ nCreates = sandbox
    /\ killCalls = [n \in 0..MaxCreates |-> 0]
    /\ killed = {}
    /\ proc = [p \in Procs |-> Idle]
    /\ calls = 0
    /\ period = 0
    /\ resolved = IF sandbox = NoSandbox THEN {}
                  ELSE {[period |-> 0, handle |-> sandbox]}
    /\ released = {}
    /\ closeDone = FALSE
    /\ now = 0
    /\ service = "absent"
    /\ httpInTime = FALSE
    /\ w = NotWaiting
    /\ OpsIdle

\* one caller runs startService against the launched process
SvcNext ==
    \/ \E p \in Procs : CanStart(p) /\ EnsureReturns(p, "startService")
    \/ \E p \in Procs : CanStart(p) /\ EnsureCreates(p, "startService")
    \/ \E p \in Procs, ok \in BOOLEAN : CreateSettles(p, ok)
    \/ \E p \in Procs : LaunchService(p)
    \/ \E p \in Procs, ok \in BOOLEAN, d \in Delays : LaunchSettles(p, ok, d)
    \/ ServiceListens
    \/ ServiceAnswers
    \/ \E p \in Procs : DeadlineExceeded(p)
    \/ \E p \in Procs : PortCheckIssue(p)
    \/ \E p \in Procs, d \in Delays : PortCheckReturns(p, d)
    \/ \E p \in Procs, d \in Delays \cup {PortCheckTimeoutMs, HttpCheckTimeoutMs} :
            ProbeThrows(p, d)
    \/ \E p \in Procs, c \in {"200", "404", "500", "failed"},
          d \in Delays \cup {CurlMaxTimeMs} : HttpCheckReturns(p, c, d)
    \/ \E p \in Procs : Sleep(p)
    \/ \E p \in Procs : AttemptsExhausted(p)
    \/ \E p \in Procs, d \in Delays : DiagReturns(p, d)
    \/ \E p \in Procs, d \in Delays \cup {DiagTimeoutMs} : DiagThrows(p, d)
    \/ \E p \in Procs : Return(p)

SpecService == SvcInit /\ [][SvcNext]_vars

\* the service holds a sandbox; callers run commands one after the other
CmdInit ==
    /\ SvcInit
    /\ sandbox # NoSandbox

CmdNext ==
    \/ \E fn \in Runners, arg \in TimeoutArgs, e \in ExitCodes, dur \in Durations :
            CommandBegin(fn, arg, e, dur)
    \/ CommandSettles
    \/ CommandRemoteFails
    \/ CommandReturn

SpecCommand == CmdInit /\ [][CmdNext]_vars

\* a bootstrap procedure launches the backend; pollBackendStatus watches it
BackendNext ==
    \/ \E b \in BootProcedures : BootBegin(b)
    \/ \E ok \in BOOLEAN : BootMongo(ok)
    \/ \E ok \in BOOLEAN : BootSetup(ok)
    \/ BootLaunch
    \/ \E threw \in BOOLEAN, c \in {"200", "404", "500", "failed"} : BootProbe(threw, c)
    \/ BootReturns
    \/ BackendStarts
    \/ \E st \in {"sick", "stopped"} : BackendBreaks(st)
    \/ PollBegin
    \/ PollTick
    \/ \E threw \in BOOLEAN, code \in {"200", "500", "000"} : HealthReturns(threw, code)
    \/ \E threw \in BOOLEAN : StatusReturns(threw)
    \/ RestartStep
    \/ RestartThrows
    \/ PollSleep

SpecBackend == CmdInit /\ [][BackendNext]_vars

\* the sandbox of either revision, with or without the MongoDB tools; callers
\* use the MongoDB methods, one after the other or interleaved
MongoInit ==
    /\ cfg = [templateId |-> TRUE, apiKey |-> TRUE]
    /\ svc = "ready"
    /\ sandbox = 1
    /\ sandboxCreationPromise = NoSandbox
    /\ createState = [n \in SandboxIds |-> IF n = sandbox THEN "ok" ELSE "none"]
    /\ createdBy = [n \in SandboxIds |->
                        [by |-> IF n = sandbox THEN "ensureSandbox" ELSE "none",
                         period |-> 0]]
    /\ nCreates = sandbox
    /\ killCalls = [n \in 0..MaxCreates |-> 0]
    /\ killed = {}
    /\ proc = [p \in Procs |-> Idle]
    /\ calls = 0
    /\ period = 0
    /\ resolved = {[period |-> 0, handle |-> sandbox]}
    /\ released = {}
    /\ closeDone = FALSE
    /\ now = 0
    /\ service = "absent"
    /\ httpInTime = FALSE
    /\ w = NotWaiting
    /\ cmdCall = NoCall
    /\ backend = NoBackend
    /\ boot = NoBoot
    /\ poll = NotPolling
    /\ mongod \in {[NoMongod EXCEPT !.rev = r, !.installed = inst, !.shell = sh] :
                        r \in Revisions, inst \in BOOLEAN, sh \in BOOLEAN}
                  \cup {[NoMongod EXCEPT !.rev = "part_001", !.installed = TRUE,
                                         !.legacy = TRUE]}
    /\ mongoCall = [p \in Procs |-> NoMongoCall]
    /\ fs = NoFiles
    /\ dep = NoDeploy

MongoNext ==
    \/ \E p \in Procs, o \in MongoOps : MongoBegin(p, o)
    \/ \E p \in Procs : TestPgrepReturns(p)
    \/ \E p \in Procs : PgrepReturns(p)
    \/ \E p \in Procs : DataDirReturns(p)
    \/ \E p \in Procs : WhichMongodReturns(p)
    \/ \E p \in Procs, out \in Outcomes : InstallReturns(p, out)
    \/ \E p \in Procs : WhichShellReturns(p)
    \/ \E p \in Procs, out \in Outcomes : ShellInstallReturns(p, out)
    \/ \E p \in Procs, out \in Outcomes : ShellInstallAltReturns(p, out)
    \/ \E p \in Procs : MongoLaunchReturns(p)
    \/ MongodListens
    \/ \E p \in Procs : LoopPgrepReturns(p)
    \/ \E p \in Procs : LoopPortReturns(p)
    \/ \E p \in Procs : LoopPingReturns(p)
    \/ \E p \in Procs : LoopSocketReturns(p)
    \/ \E p \in Procs : LoopCheckThrows(p)
    \/ \E p \in Procs : ReadLogReturns(p)
    \/ \E p \in Procs, out \in Outcomes : DbInitReturns(p, out)
    \/ \E p \in Procs : ShellCommandReturns(p)
    \/ \E p \in Procs : MongoReturn(p)

SpecMongo == MongoInit /\ [][MongoNext]_vars

\* the three probing loops side by side: from a fresh service a behaviour
\* follows one startService call, or one bootstrap procedure and the polling
\* after it, or calls of the MongoDB methods
ServiceQuiet == w = NotWaiting /\ service = "absent" /\ \A p \in Procs : proc[p] = Idle

BackendQuiet == boot = NoBoot /\ poll = NotPolling /\ backend = NoBackend

MongoQuiet == mongod = NoMongod /\ \A p \in Procs : mongoCall[p] = NoMongoCall

ProbingInit == SvcInit \/ MongoInit

ProbingNext ==
    \/ BackendQuiet /\ MongoQuiet /\ SvcNext
    \/ ServiceQuiet /\ MongoQuiet /\ calls = 0 /\ sandbox # NoSandbox /\ BackendNext
    \/ ServiceQuiet /\ BackendQuiet /\ MongoNext

SpecProbing == ProbingInit /\ [][ProbingNext]_vars

\* the service holds a sandbox; deployment workflows run on it one after the other
DeployInit ==
    /\ cfg = [templateId |-> TRUE, apiKey |-> TRUE]
    /\ svc = "ready"
    /\ sandbox \in SandboxIds
    /\ sandboxCreationPromise = NoSandbox
    /\ createState = [n \in SandboxIds |-> IF n <= sandbox THEN "ok" ELSE "none"]
    /\ createdBy = [n \in SandboxIds |->
                        [by |-> IF n <= sandbox THEN "ensureSandbox" ELSE "none",
                         period |-> IF n <= sandbox THEN n - 1 ELSE 0]]
    /\ nCreates = sandbox
    /\ killCalls = [n \in 0..MaxCreates |-> IF n >= 1 /\ n < sandbox THEN 1 ELSE 0]
    /\ killed = {n \in SandboxIds : n < sandbox}
    /\ proc = [p \in Procs |-> Idle]
    /\ calls = 0
    /\ period = sandbox - 1
    /\ resolved = {[period |-> n - 1, handle |-> n] : n \in 1..sandbox}
    /\ released = {n \in SandboxIds : n < sandbox}
    /\ closeDone = FALSE
    /\ now = 0
    /\ service = "absent"
    /\ httpInTime = FALSE
    /\ w = NotWaiting
    /\ cmdCall = NoCall
    /\ backend = NoBackend
    /\ boot = NoBoot
    /\ poll = NotPolling
    /\ mongod = NoMongod
    /\ mongoCall = [p \in Procs |-> NoMongoCall]
    /\ fs \in {[NoFiles EXCEPT !.recursive = r] : r \in BOOLEAN}
    /\ dep = NoDeploy

DeployNext ==
    \/ \E workflow \in Workflows, project \in Projects : DeployBegin(workflow, project)
    \/ \E out \in Outcomes : MongoSettles(out)
    \/ BackendDirMade
    \/ BackendFileWritten
    \/ \E out \in Outcomes : PipInstallSettles(out)
    \/ \E out \in Outcomes, health \in Outcomes : BackendStartSettles(out, health)
    \/ FrontendDirMade
    \/ \E out \in Outcomes : CreateNextAppFastSettles(out)
    \/ FrontendFileWritten
    \/ EnvFileWritten
    \/ \E out \in Outcomes, alt \in Outcomes : NpmInstallSettles(out, alt)
    \/ \E out \in Outcomes : FrontendStartSettles(out)
    \/ DeployEnds

SpecDeploy == DeployInit /\ [][DeployNext]_vars

\* ------------------------------------------------------------------ claims
\* sandboxes created and not yet killed
Live == {n \in SandboxIds : createState[n] = "ok" /\ n \notin killed}

\* the Sandbox.create requests ensureSandbox issued during period k
EnsureCreatesIn(k) ==
    {n \in SandboxIds : createdBy[n] = [by |-> "ensureSandbox", period |-> k]}

\* the call of p is past the synchronous part of ensureSandbox
InEnsureCall(p) ==
    proc[p].pc \in {"awaitCreation", "awaitPromise", "resume", "awaitRemote"}

\* the call of p holds the handle ensureSandbox resolved to
HasHandle(p) ==
    proc[p].pc \in {"resume", "awaitRemote"}

\* C1: ensureSandbox calls that begin while the service holds no sandbox and
\* interleave at their awaits issue exactly one Sandbox.create between them,
\* and every one of them resolves to the sandbox that create produced.
C1_SingleCreation ==
    /\ \A k \in 0..MaxCalls : Cardinality(EnsureCreatesIn(k)) <= 1
    /\ \A p \in Procs :
        (InEnsureCall(p) /\ proc[p].seen = NoSandbox)
            => Cardinality(EnsureCreatesIn(proc[p].startPeriod)) = 1
    /\ \A r \in resolved : EnsureCreatesIn(r.period) = {r.handle}
    /\ \A r1, r2 \in resolved : r1.period = r2.period => r1.handle = r2.handle

\* two interleaved calls, one that created and one that joined, hold the same handle
C1_Witness ==
    \E p, q \in Procs :
        /\ p # q
        /\ HasHandle(p) /\ HasHandle(q)
        /\ proc[p].seen = NoSandbox /\ proc[q].seen = NoSandbox
        /\ proc[p].startPeriod = proc[q].startPeriod
        /\ proc[p].branch = "create" /\ proc[q].branch = "join"
        /\ proc[p].handle = proc[q].handle /\ proc[p].handle # NoSandbox

\* C2: in every reachable state at most one sandbox created by the service
\* instance is live (created and not yet killed).
C2_AtMostOneLive ==
    Cardinality(Live) <= 1

\* C3: every remote command or file request the service has in flight was
\* issued on a handle that ensureSandbox returned to the issuing operation.
C3_OnlyThroughEnsure ==
    \A p \in Procs :
        proc[p].pc \in {"awaitRemote", "testAwaitRun"} => proc[p].viaEnsure

\* C4: close() issues one kill() on the current sandbox when there is one and
\* none otherwise; when it has finished this.sandbox is null; and an
\* ensureSandbox call begun after that resolves to a sandbox created later than
\* every released one, the first such call starting (or joining) a creation
\* instead of returning a stored handle.
C4_CloseReleases ==
    /\ \A p \in Procs :
        (proc[p].op = "close" /\ proc[p].pc \in {"awaitKill", "returned"})
            => /\ proc[p].kills = (IF proc[p].seen # NoSandbox THEN 1 ELSE 0)
               /\ proc[p].seen # NoSandbox => proc[p].handle = proc[p].seen
    /\ \A p \in Procs :
        (proc[p].op = "close" /\ proc[p].pc = "returned")
            => proc[p].after = NoSandbox
    /\ \A p \in Procs :
        (HasHandle(p) /\ proc[p].op = "primitive")
            => \A s \in proc[p].stale : proc[p].handle > s
    /\ \A p \in Procs :
        (InEnsureCall(p) /\ proc[p].nextAfterClose)
            => \/ proc[p].branch = "create" /\ proc[p].creates = 1
               \/ proc[p].branch = "join"
                    /\ \A s \in proc[p].stale : proc[p].awaiting > s

\* a close() killed sandbox s and finished; the next call created another one
C4_Witness ==
    \E p \in Procs :
        /\ proc[p].pc = "resume"
        /\ proc[p].nextAfterClose
        /\ proc[p].stale # {}
        /\ proc[p].creates = 1
        /\ proc[p].handle \notin proc[p].stale
        /\ proc[p].stale \subseteq killed
        /\ sandbox = proc[p].handle

\* C5: no remote command or file request is issued on a sandbox whose kill()
\* has already been invoked.
C5_NoUseAfterKill ==
    \A p \in Procs :
        proc[p].pc \in {"awaitRemote", "testAwaitRun"} => ~proc[p].afterKill

\* C6: when the Sandbox.create an operation triggered through ensureSandbox
\* fails, the operation throws that failure to its caller, having made exactly
\* one creation attempt and issued no command or file request.
C6_CreateFailurePropagates ==
    \A p \in Procs :
        (/\ proc[p].op = "primitive"
         /\ proc[p].creates >= 1
         /\ createState[proc[p].awaiting] = "failed")
            => /\ proc[p].pc = "threw"
               /\ proc[p].cause = "create"
               /\ proc[p].creates = 1
               /\ proc[p].ops = 0

\* an operation whose creation failed has thrown
C6_Witness ==
    \E p \in Procs :
        /\ proc[p].pc = "threw"
        /\ proc[p].cause = "create"
        /\ proc[p].branch = "create"
        /\ createState[proc[p].awaiting] = "failed"

ConfigComplete == cfg.templateId /\ cfg.apiKey

\* C7: with E2B_TEMPLATE_ID or E2B_API_KEY absent the constructor throws, so no
\* service instance exists and no Sandbox.create is ever issued.
C7_FailFastConfiguration ==
    /\ svc = "ready" => ConfigComplete
    /\ (svc # "unbuilt" /\ ~ConfigComplete) => svc = "failed"
    /\ nCreates > 0 => ConfigComplete
    /\ ~ConfigComplete => \A p \in Procs : proc[p].pc = "idle"

\* construction was attempted without the API key and failed
C7_Witness ==
    /\ svc = "failed"
    /\ cfg.templateId
    /\ ~cfg.apiKey

\* the loopback request got an HTTP response: curl did not fail, the status is not 000
HttpAnswered(c) == c \in {"200", "404", "500"}

StartServiceReturned ==
    proc[Starter].op = "startService" /\ proc[Starter].pc = "returned"

\* the readiness wait gave up: the deadline passed or the attempts ran out
ReadinessGaveUp ==
    /\ proc[Starter].op = "startService"
    /\ proc[Starter].pc = "threw"
    /\ proc[Starter].cause \in {"deadline", "notReady"}

\* C8: startService returns only if, in one and the same attempt, the port was
\* seen in the listening-socket table and then the loopback HTTP request
\* returned a non-error, non-zero status; the HTTP request is never issued in
\* an attempt whose port check failed.
C8_ReadyOnlyAfterBothChecks ==
    /\ StartServiceReturned => (w.isListening /\ HttpAnswered(w.curl))
    /\ w.pc = "httpCheck" => w.isListening

\* C9: when the service starts to answer HTTP before the readiness deadline and
\* stays so, startService does not return before HTTP answers, the first
\* attempt that begins after HTTP answers succeeds, and the wait does not give up.
C9_ReturnsWhenHttpAnswers ==
    /\ StartServiceReturned => service = "answering"
    /\ w.beganAnswering => w.pc \in {"portCheck", "httpCheck", "ready"}
    /\ ReadinessGaveUp => ~httpInTime

\* C10: whenever the readiness wait gives up, the three diagnostic snapshots
\* (listening sockets, process table, log tails) were collected before the
\* failure was raised.
C10_DiagnosticsBeforeFailure ==
    ReadinessGaveUp => w.diag = {"sockets", "processes", "logs"}

\* the runCommand / runLongCommand call is over
CommandSettled == cmdCall.pc \in {"returned", "threw"}

\* the remote command of the call ran to its end inside the limit
CommandEnded ==
    /\ CommandSettled
    /\ cmdCall.error # "remote"
    /\ (cmdCall.timeoutMs = 0 \/ cmdCall.dur <= cmdCall.timeoutMs)

\* C12: for every command and every exit code, a runCommand whose command ran
\* to its end returns a CommandResult carrying that exit code with the
\* command's stdout and stderr; a non-zero exit code is never thrown.
C12_ExitCodeReported ==
    /\ cmdCall.error # "exitCode"
    /\ CommandEnded =>
        /\ cmdCall.pc = "returned"
        /\ cmdCall.result = RemoteResult(cmdCall.exit)
    /\ cmdCall.pc = "threw" => cmdCall.error \in {"TimeoutError", "remote"}

\* runCommand returned the result of a command that exited with a non-zero code
C12_Witness ==
    /\ cmdCall.fn = "runCommand"
    /\ cmdCall.pc = "returned"
    /\ cmdCall.exit # 0
    /\ cmdCall.result.exitCode = cmdCall.exit
    /\ cmdCall.result.stderr # ""

\* C13: a command that runs longer than the limit T makes the call fail with a
\* timeout error when T has elapsed, not when the command ends; T is the
\* timeoutMs argument, and without one 60000 ms for runCommand and 600000 ms
\* for runLongCommand.
C13_TimeoutEnforced ==
    /\ cmdCall.pc # "idle" =>
        cmdCall.timeoutMs =
            (IF cmdCall.arg # Undefined THEN cmdCall.arg
             ELSE IF cmdCall.fn = "runCommand" THEN 60000 ELSE 600000)
    /\ (CommandSettled /\ cmdCall.error # "remote" /\ cmdCall.dur > cmdCall.timeoutMs) =>
        /\ cmdCall.pc = "threw"
        /\ cmdCall.error = "TimeoutError"
        /\ now - cmdCall.start = cmdCall.timeoutMs

\* run(cmd, cwd, 1000) on a command that needs 5000 ms failed after 1000 ms
C13_Witness ==
    /\ cmdCall.fn = "runCommand"
    /\ cmdCall.arg = 1000
    /\ cmdCall.dur = 5000
    /\ cmdCall.pc = "threw"
    /\ cmdCall.error = "TimeoutError"
    /\ now - cmdCall.start = 1000

\* C11: every launch of a long-running service (startService, the mongod launch
\* of startMongoDB, the uvicorn launches of the bootstrap procedures and of
\* restartBackendService) is issued with background: true on
\* sandbox.commands.run, never through runCommand.
C11_LaunchesInBackground ==
    \A l \in backend.launches : l.background /\ l.path = "commands.run"

\* the tick of this log entry found the backend failing
Failing(e) == ~e.isHealthy \/ ~e.isRunning

FailingTicks == {i \in 1..Len(poll.logs) : Failing(poll.logs[i])}

InRestart == poll.pc \in RemoteSteps \cup {"wait3000", "wait2000", "wait8000", "sleepAfterRestart"}

\* C14: in pollBackendStatus restartBackendService is invoked at a tick if and
\* only if the health check or the service-status check of that tick failed,
\* and it is invoked on every failing tick, however many there are.
C14_RestartOnEveryFailingTick ==
    /\ poll.restarts = Cardinality(FailingTicks)
    /\ InRestart => Failing(poll.logs[Len(poll.logs)])
    /\ poll.pc = "sleepInterval" => ~Failing(poll.logs[Len(poll.logs)])

\* three ticks of one polling window failed and each one called the restart
C14_Witness ==
    /\ Len(poll.logs) = 3
    /\ Cardinality(FailingTicks) = 3
    /\ poll.restarts = 3
    /\ poll.pc = "pkill"

\* the health results of the ticks logged so far
HealthSequence == [i \in 1..Len(poll.logs) |-> poll.logs[i].isHealthy]

StatusEntries == SelectSeq(poll.logs, LAMBDA e : e.kind = "status")

\* C15: for the health-check sequence healthy, healthy, unhealthy, healthy
\* pollBackendStatus invokes exactly one restart, and in the accumulated log
\* the isHealthy:false entry is immediately followed by an entry that records
\* the restart.
C15_RestartLogged ==
    (/\ Len(StatusEntries) = 4
     /\ [i \in 1..4 |-> StatusEntries[i].isHealthy] = <<TRUE, TRUE, FALSE, TRUE>>
     /\ \A i \in 1..4 : StatusEntries[i].isRunning)
        => /\ poll.restarts = 1
           /\ \A i \in 1..Len(poll.logs) :
                (poll.logs[i].kind = "status" /\ ~poll.logs[i].isHealthy)
                    => (i < Len(poll.logs) /\ poll.logs[i + 1].kind = "restart")

\* step s of the running restart has completed
StepDone(s) == \E i \in 1..Len(poll.steps) : poll.steps[i] = s

\* step b, when it has completed, did so after step a
StepBefore(a, b) ==
    \A j \in 1..Len(poll.steps) :
        poll.steps[j] = b => \E i \in 1..(j - 1) : poll.steps[i] = a

\* C16: restartBackendService issues its steps in the order kill by name, kill
\* by port, wait, relaunch in background, settle wait, re-verification of
\* process and port; the relaunch is not issued before both kills completed.
C16_RestartOrder ==
    /\ StepBefore("pkill", "fuser")
    /\ StepBefore("fuser", "wait2000")
    /\ StepBefore("wait2000", "launch")
    /\ StepBefore("launch", "wait8000")
    /\ StepBefore("wait8000", "ps")
    /\ StepBefore("ps", "ss")
    /\ (poll.pc = "launch" \/ StepDone("launch"))
            => (StepDone("pkill") /\ StepDone("fuser"))
    /\ StepDone("launch") =>
            \E l \in backend.launches :
                l.site = "restartBackendService" /\ l.background

\* a restart ran through all its steps
C16_Witness ==
    /\ poll.pc = "sleepAfterRestart"
    /\ Len(poll.steps) = 9
    /\ StepDone("ss")
    /\ \E l \in backend.launches : l.site = "restartBackendService" /\ l.background

\* the kinds of command that set a daemon up
SetupCommands == {"dataDir", "install", "shellInstall", "launch"}

C18_NoSecondLaunch == ~mongod.doubleStart

\* C19: a startMongoDB whose client-shell installation steps all failed issues
\* no shell-based command, and once the process exists, the port is listed and
\* the raw-socket check succeeds it returns success
C19_SucceedsWithoutShell ==
    \A p \in Procs :
        mongoCall[p].shellSteps = "failed" =>
            /\ ~mongoCall[p].shellAvailable
            /\ mongoCall[p].issued \cap {"loopPing", "dbInit"} = {}
            /\ mongoCall[p].socketOk =>
                    /\ mongoCall[p].error = ""
                    /\ mongoCall[p].pc \in {"returned", "ping", "exec"}
                    /\ (mongoCall[p].op = "startMongoDB" => mongoCall[p].result = "success")

\* both shell installations ended with a non-zero exit code, the daemon was
\* launched by this call, the raw-socket check succeeded and startMongoDB
\* returned success
C19_Witness ==
    \E p \in Procs :
        /\ mongoCall[p].shellSteps = "failed"
        /\ "launch" \in mongoCall[p].issued
        /\ mongoCall[p].socketOk
        /\ mongoCall[p].op = "startMongoDB"
        /\ mongoCall[p].pc = "returned"
        /\ mongoCall[p].result = "success"

\* C20: the startup error that startMongoDB throws when the daemon is not
\* ready after the last attempt includes the tail of the daemon's log
C20_ErrorCarriesLog ==
    \A p \in Procs :
        mongoCall[p].error \notin {"", "TimeoutError"} =>
            StrIncludes(mongoCall[p].error, LogTail)

\* C21: once the daemon is verified ready, startMongoDB returns success
\* whether the seeding command succeeds, fails or throws, and the seeding
\* command is issued only by a call that has a client shell
C21_SeedingNeverFails ==
    \A p \in Procs :
        /\ "dbInit" \in mongoCall[p].issued => mongoCall[p].shellAvailable
        /\ mongoCall[p].seed # "none" =>
                /\ mongoCall[p].error = ""
                /\ mongoCall[p].pc \in {"returned", "ping", "exec"}
                /\ (mongoCall[p].op = "startMongoDB" => mongoCall[p].result = "success")

\* the seeding command threw and startMongoDB returned success
C21_Witness ==
    \E p \in Procs :
        /\ mongoCall[p].seed = "timeout"
        /\ mongoCall[p].op = "startMongoDB"
        /\ mongoCall[p].pc = "returned"
        /\ mongoCall[p].result = "success"

\* C30: a call of startMongoDB issues the mongod launch only when the mongod
\* binary is present, found by `which mongod` or put there by a successful
\* installation; and it issues installation commands only after the
\* existence check failed
C30_LaunchOnlyWhenInstalled ==
    \A p \in Procs :
        "launch" \in mongoCall[p].issued => mongod.installed

\* C28: every sandbox that a runSimpleTest call created has been killed once
\* that call is over, on every path, the one where the test command throws
\* included
C28_TestSandboxKilled ==
    \A n \in SandboxIds :
        (/\ createdBy[n].by = "runSimpleTest"
         /\ createState[n] = "ok"
         /\ ~\E p \in Procs :
                /\ proc[p].pc \in {"testAwaitCreate", "testAwaitRun", "testAwaitKill"}
                /\ n \in {proc[p].handle, proc[p].awaiting})
            => n \in killed

\* C29: a procedure that launched the backend returns its URL only after one
\* of its probes saw the port listening and got an HTTP answer; none returns
\* after a fixed wait alone
C29_UrlOnlyAfterProbe ==
    (boot.pc = "done" /\ boot.procedure.name # "none") => boot.verified

\* C22: with every remote call returning or throwing, no probing loop goes
\* beyond its bound: waitForServiceReady makes at most ceil(timeoutMs / 2000)
\* attempts, the readiness loop of startMongoDB at most 15, the loop of
\* startBackendRobust at most 10; and a loop that is over has ended in
\* success or in a thrown error
C22_LoopsBounded ==
    /\ w.attempt <= Ceil(ReadyTimeoutMs, PollIntervalMs)
    /\ (w.pc = "ready" => proc[Starter].pc \in {"returned", "idle"})
    /\ (w.pc = "done" => proc[Starter].pc \in {"threw", "idle"})
    /\ \A p \in Procs : mongoCall[p].i < MongoAttempts
    /\ boot.procedure.name = "startBackendRobust" =>
            /\ boot.attempt <= RobustAttempts
            /\ (boot.attempt = RobustAttempts => boot.pc \in {"done", "threw"})

\* the loop of startBackendRobust has made its ten attempts and the
\* procedure has thrown
C22_Witness ==
    /\ boot.procedure.name = "startBackendRobust"
    /\ boot.attempt = RobustAttempts
    /\ boot.pc = "threw"
    /\ boot.cause = "notReady"

\* C23: in each probing loop a remote call that throws during a tick ends
\* that attempt only; the loop goes on to the next tick and the operation is
\* not aborted by the throw
C23_ThrowingProbeIsRetried ==
    /\ w.threw => w.pc = "endAttempt"
    /\ boot.probeThrew => boot.cause # "remote"
    /\ \A p \in Procs :
            ~("launch" \in mongoCall[p].issued /\ mongoCall[p].error = "TimeoutError")

\* C24: a deadline-exceeded failure (a command timeout, a readiness wait that
\* gave up) raised inside a step of a deployment workflow reaches the caller of
\* the workflow as that error: no layer catches it and goes on with the next step.
C24_DeadlineReachesCaller ==
    dep.raised # {} => (dep.pc = "threw" /\ dep.error = "TimeoutError")

\* the steps that provision the frontend
FrontendSteps ==
    {"createFrontendDir", "createNextAppFast", "frontendFile", "writeEnv",
     "npmInstall", "frontendStart"}

\* C25: in every deployment workflow the frontend is provisioned, its environment
\* file written and its service launched only after startService for the backend
\* has returned, and the environment file holds exactly the URL that call returned.
C25_FrontendAfterBackend ==
    /\ (dep.pc \in FrontendSteps \/ dep.envWrites > 0 \/ dep.frontendLaunches > 0) =>
            (dep.backendReturned /\ dep.backendUrl = ServiceUrl(8000))
    /\ dep.envWrites > 0 =>
            /\ fs.env # NoEnv
            /\ \A line \in fs.env : line[2] = dep.backendUrl

C25_Witness ==
    /\ dep.pc = "returned"
    /\ dep.envWrites > 0
    /\ dep.frontendLaunches > 0

\* the directories between the base directory (/home/backend, /home/frontend) and
\* a file under it
Intermediate(filePath) ==
    {SubSeq(filePath, 1, n) : n \in 3..(Len(filePath) - 1)}

\* C26: before a deployment procedure writes a nested file, createDirectory has
\* been called on every directory between the base directory and the file.
C26_EverySegmentCreated ==
    \A filePath \in fs.written : Intermediate(filePath) \subseteq fs.made

BackendSteps == {"createBackendDir", "backendFile", "pipInstall", "backendStart"}

\* C31: a bootstrap procedure writes its files, installs the dependencies and
\* then launches; when a dependency installation ended with a non-zero exit
\* code the procedure fails, its launch command is not issued.
C31_FailedInstallStops ==
    /\ dep.installFailed => dep.pc = "threw"
    /\ dep.pc \in {"backendFile", "pipInstall"} => ~dep.backendReturned

\* C37: within one deployGeneratedCodeToSandbox call the launch command of the
\* frontend service is issued at most once.
C37_FrontendLaunchedOnce ==
    Generated(dep) => dep.frontendLaunches <= 1

\* C39: when the deployment of the backend fails in deployGeneratedCodeToSandbox
\* or deployFullStack the workflow throws at once, with nothing issued for the
\* frontend, and does nothing after it; a failure of startMongoDB alone lets
\* deployGeneratedCodeToSandbox go on with the backend.
C39_BackendFailureStops ==
    /\ [](  (dep.pc = "threw" /\ ~dep.backendReturned) =>
              (dep.error # "none" /\ dep.approach = "none"
                  /\ dep.envWrites = 0 /\ dep.frontendLaunches = 0))
    /\ [][ /\ (dep.pc \in BackendSteps /\ dep'.pc \notin BackendSteps
                  /\ ~dep'.backendReturned) => dep'.pc = "threw"
           /\ dep.pc = "threw" => dep'.pc = "idle"
           /\ (dep.pc = "startMongoDB" /\ Generated(dep)) => dep'.pc = "createBackendDir"
         ]_vars

\* startMongoDB gave up, the deployment went on and the backend then failed
C39_Witness ==
    /\ Generated(dep)
    /\ "startMongoDB" \in dep.raised
    /\ dep.pc = "threw"
    /\ ~dep.backendReturned

\* the ticks pollBackendStatus(url, 60000, 5000) can make
MaxTicks == Ceil(PollDurationMs, PollTickMs)

\* C32: pollBackendStatus ends within its duration and returns its log, whatever
\* the checks and the restart do; the log holds one record for every tick, in
\* the order of the ticks, each with the timestamp of its tick.
C32_OneRecordPerTick ==
    /\ poll.ticks <= MaxTicks
    /\ Len(poll.logs) = IF poll.pc \in {"health", "status"} THEN poll.ticks - 1
                        ELSE poll.ticks
    /\ \A i \in 1..Len(poll.logs) : \A j \in 1..Len(poll.logs) :
            i < j => poll.logs[i].timestamp < poll.logs[j].timestamp
    /\ (poll.pc # "idle" /\ Len(poll.logs) > 0) =>
            /\ poll.logs[1].timestamp - poll.startTime >= 0
            /\ poll.logs[Len(poll.logs)].timestamp - poll.startTime < PollDurationMs

\* the polling returned its log after a tick whose check threw and a restart
\* that failed
C32_Witness ==
    /\ poll.pc = "done"
    /\ Len(poll.logs) = poll.ticks
    /\ poll.restarts > 0
    /\ backend.faults = MaxFaults
    /\ \E i \in 1..Len(poll.logs) : poll.logs[i].met.healthThrew

\* C33: checkBackendHealth and checkServiceStatus return a result whatever the
\* remote command does: a thrown command gives isHealthy false, or isRunning
\* false; isHealthy is true exactly when the request to /health met status 200.
C33_HealthyIffStatus200 ==
    \A i \in 1..Len(poll.logs) :
        LET entry == poll.logs[i] IN
        /\ entry.isHealthy <=> (~entry.met.healthThrew /\ entry.met.code = "200")
        /\ entry.met.statusThrew => ~entry.isRunning

C33_Witness ==
    \E i \in 1..Len(poll.logs) : \E j \in 1..Len(poll.logs) : \E k \in 1..Len(poll.logs) :
        /\ poll.logs[i].isHealthy
        /\ poll.logs[j].met.healthThrew
        /\ poll.logs[k].met.code = "500"

\* C34: a failed creation does not stay with the service: once Sandbox.create
\* has failed, the next ensureSandbox call starts a new creation instead of
\* being handed the failed one.
C34_FailedCreationCleared ==
    sandboxCreationPromise # NoSandbox => createState[sandboxCreationPromise] # "failed"

\* C35: a close() called while a creation was in flight leaves no sandbox of
\* that creation alive: once both have settled the sandbox has been killed.
C35_CloseKillsCreationInFlight ==
    \A p \in Procs :
        (/\ proc[p].op = "close"
         /\ proc[p].pc = "returned"
         /\ proc[p].inFlight # NoSandbox
         /\ createState[proc[p].inFlight] = "ok") => proc[p].inFlight \in killed

\* C36: overlapping close() / onModuleDestroy calls do not both invoke kill() on
\* one sandbox.
C36_KillInvokedOnce ==
    \A p \in Procs : \A q \in Procs :
        (/\ p # q
         /\ proc[p].op = "close" /\ proc[p].pc = "awaitKill"
         /\ proc[q].op = "close" /\ proc[q].pc = "awaitKill")
            => proc[p].handle # proc[q].handle

\* C38: the readiness loop of startMongoDB pings through mongosh only when
\* mongosh is there; with the legacy shell alone, or with no shell, it uses the
\* raw-socket check.
C38_PingOnlyWithMongosh ==
    \A p \in Procs : mongoCall[p].pc = "loopPing" => mongod.shell
====
